---- MODULE Spec2Model ----
(***************************************************************************)
(* Clockify integration: the data-update coordinator's refresh, with its   *)
(* week arithmetic, schedule, time summaries, exclusion policy and         *)
(* progress metrics (custom_components/clockify/__init__.py).              *)
(*                                                                         *)
(* Python floats are IEEE-754 binary64 values.  They are modelled exactly: *)
(* a finite non-negative float is m * 2^e with m an arbitrary-precision    *)
(* natural (a little-endian sequence of limbs), and every float operation  *)
(* rounds its exact result to 53 significant bits, ties to even.           *)
(* Strings the code slices or searches (ISO durations) are sequences of    *)
(* one-character strings.                                                  *)
(*                                                                         *)
(* Spec is the refresh against a remote service that sends well-formed     *)
(* timestamps; SpecGarbled is the same refresh against entries and timers  *)
(* whose timestamps may not parse; SpecSum sums one listing of entries in  *)
(* every order; SpecEntries is the setup and unload of config entries and  *)
(* the start_timer service.                                                *)
(***************************************************************************)
EXTENDS Integers, Sequences, FiniteSets, TLC

VARIABLES
    result,     \* the dict the last run of _async_update_data returned
    outcome,    \* how that run ended: "none" (no run yet), "ok", "UpdateFailed"
    inp,        \* what that run read: user status, member-profile response, now
    clock,      \* the current UTC instant
    remote,     \* the member-profile response the remote service gives this user
    sent,       \* query windows the last run sent to the time-entries endpoint
    trace,      \* week-calendar values the last run computed
    duration,   \* argument of the last _parse_iso_duration call
    parsed,     \* its return value
    logged_seconds,    \* arguments of the last _calculate_progress_metrics
    expected_seconds,  \*   call
    metrics,    \* its return value
    service,    \* the rest of the remote service: timer, entries, fault
    projects,   \* the remote service's response to each project lookup
    entry,      \* time entry of the last _should_exclude_time_entry call
    project_cache,  \* the project cache, as that call left it
    excluded,   \* its return value, the cache it was given, its lookups
    listing,   \* entries one time-entries response lists, in its order
    period_total,   \* what summing that response gave
    config_entries,   \* state of each config entry: "not_loaded", "loaded", "failed_unload"
    hass_data,   \* hass.data[DOMAIN]: the coordinator of each entry set up
    services,   \* the service registry of the domain: the coordinator each handler is bound to
    created,   \* number of coordinators constructed so far
    service_call    \* the last start_timer service call and what it did

vars == <<result, outcome, inp, clock, remote, sent, trace, duration, parsed,
          logged_seconds, expected_seconds, metrics,
          service, projects, entry, project_cache, excluded,
          listing,
          period_total,
          config_entries,
          hass_data,
          services,
          created,
          service_call>>

-----------------------------------------------------------------------------
(* Arbitrary-precision naturals: little-endian limbs, no high zero limb.   *)

LimbBits == 10
Base == 2^LimbBits

RECURSIVE BigNorm(_)
BigNorm(a) ==
    IF a = <<>> THEN a
    ELSE IF a[Len(a)] = 0 THEN BigNorm(SubSeq(a, 1, Len(a) - 1)) ELSE a

RECURSIVE BigFromInt(_)
BigFromInt(n) ==
    IF n = 0 THEN <<>> ELSE <<n % Base>> \o BigFromInt(n \div Base)

RECURSIVE BigToInt(_)
BigToInt(a) ==
    IF a = <<>> THEN 0 ELSE a[1] + Base * BigToInt(Tail(a))

RECURSIVE BigAddC(_, _, _)
BigAddC(a, b, c) ==
    IF a = <<>> /\ b = <<>> THEN (IF c = 0 THEN <<>> ELSE <<c>>)
    ELSE LET x == (IF a = <<>> THEN 0 ELSE a[1])
                  + (IF b = <<>> THEN 0 ELSE b[1]) + c
         IN  <<x % Base>> \o BigAddC(IF a = <<>> THEN a ELSE Tail(a),
                                     IF b = <<>> THEN b ELSE Tail(b),
                                     x \div Base)

BigAdd(a, b) == BigAddC(a, b, 0)

RECURSIVE BigMulC(_, _, _)
BigMulC(a, k, c) ==
    IF a = <<>> THEN BigFromInt(c)
    ELSE LET x == a[1] * k + c
         IN  <<x % Base>> \o BigMulC(Tail(a), k, x \div Base)

\* a * k for a machine-size k (k < 2^21)
BigMulSmall(a, k) == BigNorm(BigMulC(a, k, 0))

\* a divided by a machine-size d (0 < d < 2^21): quotient limbs q, remainder r
RECURSIVE BigDivR(_, _)
BigDivR(a, d) ==
    IF a = <<>> THEN [q |-> <<>>, r |-> 0]
    ELSE LET hi == BigDivR(Tail(a), d)
             x  == hi.r * Base + a[1]
         IN  [q |-> <<x \div d>> \o hi.q, r |-> x % d]

BigDivSmall(a, d) ==
    LET qr == BigDivR(a, d) IN [q |-> BigNorm(qr.q), r |-> qr.r]

Zeros(n) == [i \in 1..n |-> 0]

\* a * 2^s
BigShl(a, s) ==
    IF a = <<>> THEN a
    ELSE Zeros(s \div LimbBits) \o BigMulSmall(a, 2^(s % LimbBits))

\* floor(a / 2^s)
BigShr(a, s) ==
    LET k == s \div LimbBits
    IN  IF k >= Len(a) THEN <<>>
        ELSE BigDivSmall(SubSeq(a, k + 1, Len(a)), 2^(s % LimbBits)).q

\* a mod 2^s
BigLow(a, s) ==
    LET k == s \div LimbBits
    IN  IF k >= Len(a) THEN a
        ELSE BigNorm(SubSeq(a, 1, k) \o <<a[k + 1] % (2^(s % LimbBits))>>)

RECURSIVE IntBitLen(_)
IntBitLen(n) == IF n = 0 THEN 0 ELSE 1 + IntBitLen(n \div 2)

BigBitLen(a) ==
    IF a = <<>> THEN 0 ELSE (Len(a) - 1) * LimbBits + IntBitLen(a[Len(a)])

\* -1, 0, 1 as a < b, a = b, a > b
RECURSIVE BigCmpFrom(_, _, _)
BigCmpFrom(a, b, i) ==
    IF i = 0 THEN 0
    ELSE IF a[i] < b[i] THEN -1
    ELSE IF a[i] > b[i] THEN 1
    ELSE BigCmpFrom(a, b, i - 1)

BigCmp(a, b) ==
    IF Len(a) < Len(b) THEN -1
    ELSE IF Len(a) > Len(b) THEN 1
    ELSE BigCmpFrom(a, b, Len(a))

BigIsOdd(a) == a # <<>> /\ a[1] % 2 = 1

-----------------------------------------------------------------------------
(* IEEE-754 binary64 values, non-negative: NaN, or m * 2^e kept with m odd *)
(* (zero is m = <<>>, e = 0) so that equal values are equal records.       *)

MantBits == 53

NaN == [nan |-> TRUE, m |-> <<>>, e |-> 0]

RECURSIVE TrailingZeros(_)
TrailingZeros(n) == IF n % 2 = 1 THEN 0 ELSE 1 + TrailingZeros(n \div 2)

RECURSIVE FNorm(_, _)
FNorm(m, e) ==
    IF m = <<>> THEN [nan |-> FALSE, m |-> <<>>, e |-> 0]
    ELSE IF m[1] = 0 THEN FNorm(Tail(m), e + LimbBits)
    ELSE LET z == TrailingZeros(m[1])
         IN  [nan |-> FALSE, m |-> BigShr(m, z), e |-> e + z]

\* m * 2^e (plus a nonzero fraction below the last bit of m when sticky)
\* rounded to the nearest 53-bit significand, ties to even
FRound(m, e, sticky) ==
    LET L == BigBitLen(m)
    IN  IF L <= MantBits THEN FNorm(m, e)
        ELSE LET s    == L - MantBits
                 q    == BigShr(m, s)
                 c    == BigCmp(BigLow(m, s), BigShl(<<1>>, s - 1))
                 up   == c > 0 \/ (c = 0 /\ (sticky \/ BigIsOdd(q)))
             IN  FNorm(IF up THEN BigAdd(q, <<1>>) ELSE q, e + s)

\* float(n) for an int n (exact: n < 2^53)
FFromInt(n) == FNorm(BigFromInt(n), 0)

FIsZero(x) == ~x.nan /\ x.m = <<>>

\* x + y
FAdd(x, y) ==
    IF x.nan \/ y.nan THEN NaN
    ELSE LET e == IF x.e < y.e THEN x.e ELSE y.e
         IN  FRound(BigAdd(BigShl(x.m, x.e - e), BigShl(y.m, y.e - e)), e, FALSE)

\* x * k for an int k >= 0 (Python converts k to float; k < 2^21 is exact)
FMulInt(x, k) ==
    IF x.nan THEN NaN
    ELSE FRound(BigMulSmall(x.m, k), x.e, FALSE)

\* x / y for y > 0 whose significand fits a machine word (60.0, 3600, ...)
FDiv(x, y) ==
    IF x.nan \/ y.nan THEN NaN
    ELSE IF x.m = <<>> THEN x
    ELSE LET d  == BigToInt(y.m)
             k0 == MantBits + 2 + IntBitLen(d) - BigBitLen(x.m)
             k  == IF k0 > 0 THEN k0 ELSE 0
             qr == BigDivSmall(BigShl(x.m, k), d)
         IN  FRound(qr.q, x.e - k - y.e, qr.r # 0)

\* int(x) for finite x: truncation toward zero
FTrunc(x) ==
    IF x.e >= 0 THEN BigToInt(BigShl(x.m, x.e))
    ELSE BigToInt(BigShr(x.m, 0 - x.e))

-----------------------------------------------------------------------------
(* Strings as sequences of characters, and the str / float built-ins the   *)
(* duration parser uses.                                                   *)

Range(s) == {s[i] : i \in 1..Len(s)}

\* s.startswith(p)
StartsWith(s, p) == Len(s) >= Len(p) /\ SubSeq(s, 1, Len(p)) = p

\* index of the first occurrence of character c in s, 0 when there is none
IndexOf(s, c) ==
    IF c \in Range(s)
    THEN CHOOSE i \in 1..Len(s) : s[i] = c /\ \A j \in 1..(i - 1) : s[j] # c
    ELSE 0

\* s.split(c): the parts of s between the occurrences of c
RECURSIVE Split(_, _)
Split(s, c) ==
    LET i == IndexOf(s, c)
    IN  IF i = 0 THEN <<s>>
        ELSE <<SubSeq(s, 1, i - 1)>> \o Split(SubSeq(s, i + 1, Len(s)), c)

Digit == {"0", "1", "2", "3", "4", "5", "6", "7", "8", "9"}

DigitVal(c) ==
    CASE c = "0" -> 0 [] c = "1" -> 1 [] c = "2" -> 2 [] c = "3" -> 3
      [] c = "4" -> 4 [] c = "5" -> 5 [] c = "6" -> 6 [] c = "7" -> 7
      [] c = "8" -> 8 [] c = "9" -> 9

RECURSIVE DecVal(_)
DecVal(s) ==
    IF s = <<>> THEN 0
    ELSE 10 * DecVal(SubSeq(s, 1, Len(s) - 1)) + DigitVal(s[Len(s)])

\* float(s) on strings over digits and letters: a run of digits is its
\* value, "nan" is NaN, anything else raises ValueError (ok = FALSE)
PyFloat(s) ==
    IF s # <<>> /\ Range(s) \subseteq Digit
    THEN [ok |-> TRUE, v |-> FFromInt(DecVal(s))]
    ELSE IF s = <<"n", "a", "n">>
    THEN [ok |-> TRUE, v |-> NaN]
    ELSE [ok |-> FALSE, v |-> FFromInt(0)]

\* _parse_iso_duration: ISO 8601 duration (PT6H, PT6H30M) to hours
_parse_iso_duration(d) ==
    IF ~StartsWith(d, <<"P", "T">>) THEN FFromInt(0)
    ELSE LET rest  == SubSeq(d, 3, Len(d))
             hasH  == "H" \in Range(rest)
             hf    == PyFloat(Split(rest, "H")[1])
             rest2 == IF hasH THEN Split(rest, "H")[2] ELSE rest
             hasM  == "M" \in Range(rest2)
             mf    == PyFloat(Split(rest2, "M")[1])
             hours   == IF hasH THEN hf.v ELSE FFromInt(0)
             minutes == IF hasM THEN mf.v ELSE FFromInt(0)
         IN  IF hasH /\ ~hf.ok THEN FFromInt(0)          \* except ValueError
             ELSE IF hasM /\ ~mf.ok THEN FFromInt(0)     \* except ValueError
             ELSE FAdd(hours, FDiv(minutes, FFromInt(60)))

-----------------------------------------------------------------------------
(* datetime / timedelta in UTC: a datetime is [day, sec, us] with day the  *)
(* number of days since 1970-01-01, sec the second of the day and us the   *)
(* microsecond of the second.                                              *)

DaySeconds == 24 * 3600
SecondMicros == 1000 * 1000

\* datetime.weekday(): 0 = Monday .. 6 = Sunday (1970-01-01 was a Thursday)
weekday(dt) == (dt.day + 3) % 7

\* timedelta(days=, hours=, minutes=, seconds=, microseconds=), normalised
timedelta(days, hours, minutes, seconds, microseconds) ==
    LET us == microseconds
        s  == hours * 3600 + minutes * 60 + seconds + us \div SecondMicros
    IN  [days |-> days + s \div DaySeconds, seconds |-> s % DaySeconds,
         microseconds |-> us % SecondMicros]

\* dt + td
DtAdd(dt, td) ==
    LET us == dt.us + td.microseconds
        s  == dt.sec + td.seconds + us \div SecondMicros
    IN  [day |-> dt.day + td.days + s \div DaySeconds, sec |-> s % DaySeconds,
         us |-> us % SecondMicros]

\* dt - timedelta(days=n)
DtSubDays(dt, n) == [dt EXCEPT !.day = dt.day - n]

\* dt.replace(hour=, minute=, second=, microsecond=)
DtReplace(dt, hour, minute, second, microsecond) ==
    [day |-> dt.day, sec |-> hour * 3600 + minute * 60 + second, us |-> microsecond]

\* dt.date(), and strftime("%Y-%m-%d") as the date it prints
DateOf(dt) == dt.day

\* a <= b
DtLeq(a, b) ==
    \/ a.day < b.day
    \/ a.day = b.day /\ a.sec < b.sec
    \/ a.day = b.day /\ a.sec = b.sec /\ a.us <= b.us

-----------------------------------------------------------------------------
(* Week calendar                                                           *)

standard_order == <<"Mon", "Tue", "Wed", "Thu", "Fri", "Sat", "Sun">>

\* the map without its SUNDAY entry
Mut_week_start_offset(week_start_day) ==
    CASE week_start_day = "MONDAY" -> 0
      [] week_start_day = "SATURDAY" -> 5
      [] OTHER -> 0

\* _get_week_start_offset(week_start_day): week_start_map.get(.., 0)
_get_week_start_offset(week_start_day) ==
    CASE week_start_day = "MONDAY" -> 0
      [] week_start_day = "SUNDAY" -> 6
      [] week_start_day = "SATURDAY" -> 5
      [] OTHER -> 0

\* _get_week_day_order(week_start_day)
_get_week_day_order(week_start_day) ==
    LET week_start_offset == _get_week_start_offset(week_start_day)
    IN  SubSeq(standard_order, week_start_offset + 1, 7)
            \o SubSeq(standard_order, 1, week_start_offset)

\* the wrapped branch counting from 6 instead of 7
Mut_days_since_week_start(current_date, week_start_day) ==
    LET week_start_offset == _get_week_start_offset(week_start_day)
        current_weekday   == weekday(current_date)
    IN  IF current_weekday >= week_start_offset
        THEN current_weekday - week_start_offset
        ELSE 6 - week_start_offset + current_weekday

\* _calculate_days_since_week_start(current_date, week_start_day)
_calculate_days_since_week_start(current_date, week_start_day) ==
    LET week_start_offset == _get_week_start_offset(week_start_day)
        current_weekday   == weekday(current_date)
    IN  IF current_weekday >= week_start_offset
        THEN current_weekday - week_start_offset
        ELSE 7 - week_start_offset + current_weekday

\* the week end taken 7 days after the week start
Mut_WeeklyWindow(date, week_start_day) ==
    LET days_since_week_start == _calculate_days_since_week_start(date, week_start_day)
        week_start == DtSubDays(DtReplace(date, 0, 0, 0, 0), days_since_week_start)
        week_end   == DtAdd(week_start, timedelta(7, 23, 59, 59, 999999))
    IN  [start |-> week_start, end |-> week_end]

\* week_start, week_end of _async_get_weekly_time
WeeklyWindow(date, week_start_day) ==
    LET days_since_week_start == _calculate_days_since_week_start(date, week_start_day)
        week_start == DtSubDays(DtReplace(date, 0, 0, 0, 0), days_since_week_start)
        week_end   == DtAdd(week_start, timedelta(6, 23, 59, 59, 999999))
    IN  [start |-> week_start, end |-> week_end]

\* day_start, day_end of day i (0..6) of _async_get_weekly_daily_breakdown
BreakdownDayWindow(date, week_start_day, i) ==
    LET days_since_week_start == _calculate_days_since_week_start(date, week_start_day)
        week_start == DtSubDays(DtReplace(date, 0, 0, 0, 0), days_since_week_start)
        day_date   == DtAdd(week_start, timedelta(i, 0, 0, 0, 0))
    IN  [start |-> DtReplace(day_date, 0, 0, 0, 0),
         end   |-> DtReplace(day_date, 23, 59, 59, 999999)]

\* start_date, end_date of _async_get_daily_time
DailyWindow(date) ==
    [start |-> DtReplace(date, 0, 0, 0, 0),
     end   |-> DtReplace(date, 23, 59, 59, 999999)]

-----------------------------------------------------------------------------
(* Python values: a dict is a function from its keys to their values; a    *)
(* value that may be None is [none, v]; a JSON number is its literal       *)
(* [isInt, num, den] (an int num, or the decimal num/den read as a float).  *)

EmptyDict == [k \in {} |-> 0]

PyNone == [none |-> TRUE, v |-> EmptyDict]
Some(d) == [none |-> FALSE, v |-> d]

\* d.get(k, default)
Get(d, k, default) == IF k \in DOMAIN d THEN d[k] ELSE default

\* truth value of a dict-or-None
Truthy(o) == ~o.none /\ DOMAIN o.v # {}

\* int(x) of a float: ValueError on NaN
PyInt(x) == [ok |-> ~x.nan, v |-> IF x.nan THEN 0 ELSE FTrunc(x)]

\* the float a JSON number reads as
NumFloat(n) == IF n.isInt THEN FFromInt(n.num) ELSE FDiv(FFromInt(n.num), FFromInt(n.den))

\* int(n * 3600) of a JSON number n
NumSeconds(n) ==
    IF n.isInt THEN [ok |-> TRUE, v |-> n.num * 3600]
    ELSE PyInt(FMulInt(NumFloat(n), 3600))

\* sum of a sequence of floats, left to right from 0
RECURSIVE FSum(_)
FSum(xs) ==
    IF xs = <<>> THEN FFromInt(0)
    ELSE FAdd(FSum(SubSeq(xs, 1, Len(xs) - 1)), xs[Len(xs)])

-----------------------------------------------------------------------------
(* _calculate_expected_hours                                               *)

PT0H == <<"P", "T", "0", "H">>
PT8H == <<"P", "T", "8", "H">>

WeekdayShort == {"Mon", "Tue", "Wed", "Thu", "Fri"}

\* day[:3] for the weekday spellings of the model
Prefix3(day) ==
    CASE day = "FUNDAY" -> "FUN"
      [] day = "monday" -> "mon"
      [] day = "Sunday" -> "Sun"
      [] OTHER -> day

\* day_mapping[day] with no default: an unknown name is a KeyError, seen
\* here as the label "KeyError"
Mut_day_mapping_get(day) ==
    CASE day = "MONDAY" -> "Mon" [] day = "TUESDAY" -> "Tue"
      [] day = "WEDNESDAY" -> "Wed" [] day = "THURSDAY" -> "Thu"
      [] day = "FRIDAY" -> "Fri" [] day = "SATURDAY" -> "Sat"
      [] day = "SUNDAY" -> "Sun" [] OTHER -> "KeyError"

\* day_mapping.get(day, day[:3]) of the member-capacity and legacy branches
day_mapping_get(day) ==
    CASE day = "MONDAY" -> "Mon" [] day = "TUESDAY" -> "Tue"
      [] day = "WEDNESDAY" -> "Wed" [] day = "THURSDAY" -> "Thu"
      [] day = "FRIDAY" -> "Fri" [] day = "SATURDAY" -> "Sat"
      [] day = "SUNDAY" -> "Sun" [] OTHER -> Prefix3(day)

\* keys of day_mapping of the per-weekday branch, in dict order
api_days == <<"monday", "tuesday", "wednesday", "thursday", "friday",
              "saturday", "sunday">>

\* current_day_name
current_day_name(current_date) == standard_order[weekday(current_date) + 1]

\* the result dict as first built: all zero, no working days
ZeroResult ==
    [daily_expected_seconds |-> 0, weekly_expected_seconds |-> 0,
     weekly_to_date_expected_seconds |-> 0,
     weekly_remaining_expected_seconds |-> 0, working_days |-> <<>>]

Returned(r) == [raised |-> FALSE, result |-> r]
Raised == [raised |-> TRUE, result |-> ZeroResult]

\* number of positions lo..hi of week_day_order whose day is in the set days
CountDays(week_day_order, lo, hi, days) ==
    Cardinality({i \in lo..hi : week_day_order[i + 1] \in days})

\* no schedule: 8 hours/day, Mon-Fri
DefaultExpected(current_date, week_start_day) ==
    LET day_name == current_day_name(current_date)
        is_weekday == day_name \in WeekdayShort
        days_since_week_start ==
            _calculate_days_since_week_start(current_date, week_start_day)
        week_day_order == _get_week_day_order(week_start_day)
        working_days_to_date ==
            IF days_since_week_start + 1 < 5 THEN days_since_week_start + 1 ELSE 5
        working_days_remaining ==
            CountDays(week_day_order, days_since_week_start + 1, 6, WeekdayShort)
    IN  Returned(
        [daily_expected_seconds |-> IF is_weekday THEN 8 * 3600 ELSE 0,
         working_days |-> IF is_weekday
                          THEN <<"Mon", "Tue", "Wed", "Thu", "Fri">> ELSE <<>>,
         weekly_expected_seconds |-> 5 * 8 * 3600,
         weekly_to_date_expected_seconds |-> working_days_to_date * 8 * 3600,
         weekly_remaining_expected_seconds |-> working_days_remaining * 8 * 3600])

\* one capacity for every listed day: the tail shared by the member-capacity
\* branch and the legacy branch (working_days is the mapped list, seconds is
\* int(hours_per_day * 3600) or its ValueError)
UniformExpected(working_days, seconds, current_date, week_start_day) ==
    LET days_since_week_start ==
            _calculate_days_since_week_start(current_date, week_start_day)
        week_day_order == _get_week_day_order(week_start_day)
        working_days_to_date ==
            CountDays(week_day_order, 0, days_since_week_start, Range(working_days))
        working_days_remaining ==
            CountDays(week_day_order, days_since_week_start + 1, 6, Range(working_days))
    IN  IF ~seconds.ok THEN Raised
        ELSE Returned(
        [daily_expected_seconds |->
            IF current_day_name(current_date) \in Range(working_days)
            THEN seconds.v ELSE 0,
         working_days |-> working_days,
         weekly_expected_seconds |-> Len(working_days) * seconds.v,
         weekly_to_date_expected_seconds |-> working_days_to_date * seconds.v,
         weekly_remaining_expected_seconds |-> working_days_remaining * seconds.v])

\* working_days_api: workingDays is a list, or a string holding JSON
WorkingDaysApi(working_days_raw) ==
    IF working_days_raw.isStr
    THEN (IF working_days_raw.json THEN working_days_raw.list ELSE <<>>)
    ELSE working_days_raw.list

\* member profile format: workCapacity + workingDays
MemberExpected(user_schedule, current_date, week_start_day) ==
    LET hours_per_day == _parse_iso_duration(Get(user_schedule, "workCapacity", PT8H))
        working_days_api == WorkingDaysApi(user_schedule["workingDays"])
        working_days ==
            [i \in 1..Len(working_days_api) |-> day_mapping_get(working_days_api[i])]
    IN  UniformExpected(working_days, PyInt(FMulInt(hours_per_day, 3600)),
                        current_date, week_start_day)

\* daysOfWeek / hoursPerDay (workspace defaults), days_of_week non-empty
LegacyExpected(user_schedule, current_date, week_start_day) ==
    LET days_of_week == user_schedule["daysOfWeek"]
        hours_per_day == Get(user_schedule, "hoursPerDay",
                             [isInt |-> TRUE, num |-> 8, den |-> 1])
        working_days ==
            [i \in 1..Len(days_of_week) |-> day_mapping_get(days_of_week[i])]
    IN  UniformExpected(working_days, NumSeconds(hours_per_day),
                        current_date, week_start_day)

\* day_data = work_week.get(api_day, {}) of the i-th entry of day_mapping
day_data(work_week, i) == Get(work_week, api_days[i], EmptyDict)

\* is_work_day = day_data.get("isWorkDay", False)
is_work_day(work_week, i) == Get(day_data(work_week, i), "isWorkDay", FALSE)

\* working_days after the first n entries of day_mapping
RECURSIVE WorkWeekDays(_, _)
WorkWeekDays(work_week, n) ==
    IF n = 0 THEN <<>>
    ELSE WorkWeekDays(work_week, n - 1)
             \o (IF is_work_day(work_week, n) THEN <<standard_order[n]>> ELSE <<>>)

\* daily_hours: the parsed duration of every work day
WorkWeekHours(work_week) ==
    [d \in {standard_order[i] : i \in {k \in 1..7 : is_work_day(work_week, k)}} |->
        _parse_iso_duration(
            Get(day_data(work_week, CHOOSE i \in 1..7 : standard_order[i] = d),
                "duration", PT0H))]

\* daily_hours[day] for the days at positions lo..hi (0-based) of
\* week_day_order that are in daily_hours, in that order
RECURSIVE HoursInOrder(_, _, _, _)
HoursInOrder(daily_hours, week_day_order, lo, hi) ==
    IF hi < lo THEN <<>>
    ELSE HoursInOrder(daily_hours, week_day_order, lo, hi - 1)
             \o (IF week_day_order[hi + 1] \in DOMAIN daily_hours
                 THEN <<daily_hours[week_day_order[hi + 1]]>> ELSE <<>>)

\* the result of the workWeek branch from its four int(hours * 3600)
WorkWeekResult(working_days, daily, weekly, to_date, remaining) ==
    IF ~(daily.ok /\ weekly.ok /\ to_date.ok /\ remaining.ok) THEN Raised
    ELSE Returned(
        [daily_expected_seconds |-> daily.v,
         working_days |-> working_days,
         weekly_expected_seconds |-> weekly.v,
         weekly_to_date_expected_seconds |-> to_date.v,
         weekly_remaining_expected_seconds |-> remaining.v])

\* the figures of the workWeek branch once working_days and daily_hours
\* are built
WorkWeekFigures(working_days, daily_hours, today, days_since_week_start, week_day_order) ==
    WorkWeekResult(
        working_days,
        IF today \in DOMAIN daily_hours
        THEN PyInt(FMulInt(daily_hours[today], 3600))
        ELSE [ok |-> TRUE, v |-> 0],
        PyInt(FMulInt(
            FSum([i \in 1..Len(working_days) |-> daily_hours[working_days[i]]]),
            3600)),
        PyInt(FMulInt(
            FSum(HoursInOrder(daily_hours, week_day_order, 0, days_since_week_start)),
            3600)),
        PyInt(FMulInt(
            FSum(HoursInOrder(daily_hours, week_day_order,
                              days_since_week_start + 1, 6)),
            3600)))

\* the workWeek structure with per-day durations
WorkWeekExpected(work_week, current_date, week_start_day) ==
    WorkWeekFigures(
        WorkWeekDays(work_week, 7),
        WorkWeekHours(work_week),
        current_day_name(current_date),
        _calculate_days_since_week_start(current_date, week_start_day),
        _get_week_day_order(week_start_day))

\* the legacy form tried before the workWeek form
Mut_calculate_expected_hours(user_schedule, current_date, week_start_day) ==
    IF ~Truthy(user_schedule)
    THEN DefaultExpected(current_date, week_start_day)
    ELSE IF "workCapacity" \in DOMAIN user_schedule.v
            /\ "workingDays" \in DOMAIN user_schedule.v
    THEN MemberExpected(user_schedule.v, current_date, week_start_day)
    ELSE IF Get(user_schedule.v, "daysOfWeek", <<>>) # <<>>
    THEN LegacyExpected(user_schedule.v, current_date, week_start_day)
    ELSE WorkWeekExpected(Get(user_schedule.v, "workWeek", EmptyDict),
                          current_date, week_start_day)

\* _calculate_expected_hours(user_schedule, current_date, week_start_day):
\* user_schedule is a dict or None
_calculate_expected_hours(user_schedule, current_date, week_start_day) ==
    IF ~Truthy(user_schedule)
    THEN DefaultExpected(current_date, week_start_day)
    ELSE IF "workCapacity" \in DOMAIN user_schedule.v
            /\ "workingDays" \in DOMAIN user_schedule.v
    THEN MemberExpected(user_schedule.v, current_date, week_start_day)
    ELSE LET work_week == Get(user_schedule.v, "workWeek", EmptyDict)
             days_of_week == Get(user_schedule.v, "daysOfWeek", <<>>)
         IN  IF DOMAIN work_week = {} /\ days_of_week # <<>>
             THEN LegacyExpected(user_schedule.v, current_date, week_start_day)
             ELSE WorkWeekExpected(work_week, current_date, week_start_day)

-----------------------------------------------------------------------------
(* _should_exclude_time_entry and the project lookup.  The remote service  *)
(* answers a lookup of project id p with projects[p] = [raises, status,    *)
(* body]: a transport error, or a status and a JSON body; an id it does    *)
(* not know gets 404.  The project cache is a dict from ids to the         *)
(* dict-or-None the lookup returned, or None when no cache is passed.      *)

NotFound == [raises |-> FALSE, status |-> 404, body |-> EmptyDict]

\* _async_get_project: the body on status 200, else None; a transport
\* error is raised to the caller
_async_get_project(remote_projects, project_id) ==
    LET response == Get(remote_projects, project_id, NotFound)
    IN  IF response.raises THEN [raised |-> TRUE, data |-> PyNone]
        ELSE [raised |-> FALSE,
              data |-> IF response.status # 200 THEN PyNone
                       ELSE Some(response.body)]

\* str.lower() on the project names of the model
Lower(name) ==
    CASE name = "Breaks" -> "breaks"
      [] name = "BREAKS" -> "breaks"
      [] name = "bReAkS" -> "breaks"
      [] name = "Break" -> "break"
      [] name = "Work" -> "work"
      [] OTHER -> name

Mut_NameIsBreaks(project_data) ==
    Truthy(project_data) /\ Get(project_data.v, "name", "") = "breaks"

\* project_data and project_data.get("name", "").lower() == "breaks"
NameIsBreaks(project_data) ==
    Truthy(project_data) /\ Lower(Get(project_data.v, "name", "")) = "breaks"

\* the outcome of a call: its value, the cache after it, the ids looked up
Excluded(value, cache, fetched) ==
    [excluded |-> value, project_cache |-> cache, fetched |-> fetched]

Mut_ExcludeByLookup(project_id, cache, lookup) ==
    IF lookup.raised \/ ~Truthy(lookup.data)
    THEN Excluded(TRUE, cache, <<project_id>>)
    ELSE Excluded(NameIsBreaks(lookup.data),
                  IF cache.none THEN cache
                  ELSE Some((project_id :> lookup.data) @@ cache.v),
                  <<project_id>>)

\* the lookup branch: fetch, cache the answer when a cache was passed; an
\* exception of the lookup is caught and gives False
ExcludeByLookup(project_id, cache, lookup) ==
    IF lookup.raised THEN Excluded(FALSE, cache, <<project_id>>)
    ELSE Excluded(NameIsBreaks(lookup.data),
                  IF cache.none THEN cache
                  ELSE Some((project_id :> lookup.data) @@ cache.v),
                  <<project_id>>)

Mut_should_exclude_time_entry(e, cache, remote_projects) ==
    IF Get(e, "projectId", "") = "" THEN Excluded(FALSE, cache, <<>>)
    ELSE IF Truthy(cache) /\ e["projectId"] \in DOMAIN cache.v
    THEN Excluded(NameIsBreaks(cache.v[e["projectId"]]), cache, <<>>)
    ELSE ExcludeByLookup(e["projectId"], cache,
                         _async_get_project(remote_projects, e["projectId"]))

\* a missing "type" or "projectId" reads as None, which is neither "BREAK"
\* nor a true value, like the empty string here
_should_exclude_time_entry(e, cache, remote_projects) ==
    IF Get(e, "type", "") = "BREAK" THEN Excluded(TRUE, cache, <<>>)
    ELSE IF Get(e, "projectId", "") = "" THEN Excluded(FALSE, cache, <<>>)
    ELSE IF Truthy(cache) /\ e["projectId"] \in DOMAIN cache.v
    THEN Excluded(NameIsBreaks(cache.v[e["projectId"]]), cache, <<>>)
    ELSE ExcludeByLookup(e["projectId"], cache,
                         _async_get_project(remote_projects, e["projectId"]))

-----------------------------------------------------------------------------
(* Time summaries.  A time entry is a dict; its "timeInterval" is a dict   *)
(* whose "start" and "end", when present, are the instants the ISO texts   *)
(* denote (a running entry has no "end").  A timestamp whose text is not   *)
(* ISO is the instant the service means with the text it sends instead, in *)
(* a field "text": the empty string, or characters no datetime is written  *)
(* with.  The rest of the remote service is service = [timer, entries,     *)
(* fault]: the body of the in-progress query, the user's time entries, and *)
(* the request that fails, if any.  The time-entries endpoint answers a    *)
(* window with the entries that start in it.                               *)

NoFault == [at |-> "none", i |-> 0, how |-> "none"]

\* b - a for a <= b as a timedelta: whole seconds and microseconds
SecondsBetween(a, b) ==
    (b.day - a.day) * DaySeconds + (b.sec - a.sec) - (IF b.us < a.us THEN 1 ELSE 0)
MicrosPart(a, b) ==
    IF b.us < a.us THEN b.us - a.us + SecondMicros ELSE b.us - a.us

\* (b - a).total_seconds() for a <= b: the count of microseconds, an exact
\* int, divided by 10**6 as floats
total_seconds(a, b) ==
    FDiv(FNorm(BigAdd(BigMulSmall(BigFromInt(SecondsBetween(a, b)), SecondMicros),
                      BigFromInt(MicrosPart(a, b))), 0),
         FFromInt(SecondMicros))

\* int((b - a).total_seconds()): truncated toward zero
IntTotalSeconds(a, b) ==
    IF DtLeq(a, b) THEN FTrunc(total_seconds(a, b))
    ELSE 0 - FTrunc(total_seconds(b, a))

\* time_interval.get(key) is a true value: the key is there and its text
\* is not empty
HasText(time_interval, key) ==
    /\ key \in DOMAIN time_interval
    /\ ~("text" \in DOMAIN time_interval[key] /\ time_interval[key].text = "")

\* datetime.fromisoformat(text.replace("Z", "+00:00")): ValueError unless
\* the text is an ISO timestamp
fromisoformat(t) ==
    IF "text" \in DOMAIN t
    THEN [raised |-> TRUE, value |-> [day |-> 0, sec |-> 0, us |-> 0]]
    ELSE [raised |-> FALSE, value |-> [day |-> t.day, sec |-> t.sec, us |-> t.us]]

\* end - start in whole seconds once both texts are read; the ValueError of
\* either is raised
SecondsOf(start, end) ==
    IF start.raised \/ end.raised THEN [raised |-> TRUE, seconds |-> 0]
    ELSE [raised |-> FALSE, seconds |-> IntTotalSeconds(start.value, end.value)]

\* what a closed entry adds to a total; an entry without start or end adds 0
EntrySeconds(e) ==
    IF /\ HasText(Get(e, "timeInterval", EmptyDict), "start")
       /\ HasText(Get(e, "timeInterval", EmptyDict), "end")
    THEN SecondsOf(fromisoformat(e["timeInterval"]["start"]),
                   fromisoformat(e["timeInterval"]["end"]))
    ELSE [raised |-> FALSE, seconds |-> 0]

RECURSIVE EntriesIn(_, _)
EntriesIn(entries, window) ==
    IF entries = <<>> THEN <<>>
    ELSE IF /\ "start" \in DOMAIN Get(Head(entries), "timeInterval", EmptyDict)
            /\ DtLeq(window.start, Head(entries)["timeInterval"]["start"])
            /\ DtLeq(Head(entries)["timeInterval"]["start"], window.end)
    THEN <<Head(entries)>> \o EntriesIn(Tail(entries), window)
    ELSE EntriesIn(Tail(entries), window)

\* the response to the time-entries query at (of kind at, for day index i)
TimeEntriesResponse(svc, at, i, window) ==
    IF svc.fault.at = at /\ svc.fault.i = i
    THEN [raises |-> svc.fault.how = "raises", status |-> 500, body |-> <<>>]
    ELSE [raises |-> FALSE, status |-> 200, body |-> EntriesIn(svc.entries, window)]

\* the state of the loop over the entries of a response: whether it raised,
\* the total so far, the project cache, the project ids looked up
SumFrom(cache) ==
    [raised |-> FALSE, total |-> 0, project_cache |-> cache, fetched |-> <<>>]

\* the loop state after the exclusion check of an entry
Checked(sum, call) ==
    [sum EXCEPT !.project_cache = call.project_cache,
                !.fetched = @ \o call.fetched]

\* the loop state after an entry that is not excluded: its seconds are
\* added, or the ValueError of its timestamps ends the loop
Added(sum, seconds) ==
    IF seconds.raised THEN [sum EXCEPT !.raised = TRUE]
    ELSE [sum EXCEPT !.total = @ + seconds.seconds]

\* the loop over the entries of a response: entries that are not excluded
\* add their seconds; the project cache is carried along
RECURSIVE SumEntries(_, _, _)
Mut_SumNext(entries, sum, call, remote_projects) ==
    SumEntries(Tail(entries),
               IF call.excluded THEN [Checked(sum, call) EXCEPT !.total = 0]
               ELSE Added(Checked(sum, call), EntrySeconds(Head(entries))),
               remote_projects)

SumNext(entries, sum, call, remote_projects) ==
    SumEntries(Tail(entries),
               IF call.excluded THEN Checked(sum, call)
               ELSE Added(Checked(sum, call), EntrySeconds(Head(entries))),
               remote_projects)

SumEntries(entries, sum, remote_projects) ==
    IF entries = <<>> \/ sum.raised THEN sum
    ELSE SumNext(entries, sum,
                 _should_exclude_time_entry(Head(entries), sum.project_cache,
                                            remote_projects),
                 remote_projects)

\* what a summary returns once its loop ended: 0 when the loop raised
Summed(sum) ==
    [total |-> IF sum.raised THEN 0 ELSE sum.total, fetched |-> sum.fetched]

\* total of a response with a fresh project cache: 0 unless the status is
\* 200; with it, the project ids looked up
TotalOf(response, remote_projects) ==
    IF response.raises \/ response.status # 200
    THEN [total |-> 0, fetched |-> <<>>]
    ELSE Summed(SumEntries(response.body, SumFrom(Some(EmptyDict)), remote_projects))

_async_get_daily_time(svc, remote_projects, date) ==
    TotalOf(TimeEntriesResponse(svc, "daily", 0, DailyWindow(date)), remote_projects)

_async_get_weekly_time(svc, remote_projects, date, week_start_day) ==
    TotalOf(TimeEntriesResponse(svc, "weekly", 0, WeeklyWindow(date, week_start_day)),
            remote_projects)

-----------------------------------------------------------------------------
(* _calculate_progress_metrics.  round(x, ndigits) gives the float nearest *)
(* to a decimal with ndigits places; it is kept as that decimal, num / den *)
(* with den = 10^ndigits.  Formatted text is a sequence of characters.     *)

\* round(x, ndigits) of a finite x >= 0: the exact value of x to the nearest
\* multiple of 10^-ndigits, ties to even
PyRound(x, ndigits) ==
    LET den == 10^ndigits
        M   == BigMulSmall(x.m, den)
    IN  IF x.e >= 0 THEN [num |-> BigToInt(BigShl(M, x.e)), den |-> den]
        ELSE LET s  == 0 - x.e
                 q  == BigShr(M, s)
                 c  == BigCmp(BigLow(M, s), BigShl(<<1>>, s - 1))
                 up == c > 0 \/ (c = 0 /\ BigIsOdd(q))
             IN  [num |-> BigToInt(q) + (IF up THEN 1 ELSE 0), den |-> den]

\* -x of a rounded value
DecNeg(d) == [num |-> 0 - d.num, den |-> d.den]

\* str(n) of an int n >= 0
RECURSIVE PyStr(_)
PyStr(n) ==
    LET last == <<"0", "1", "2", "3", "4", "5", "6", "7", "8", "9">>[(n % 10) + 1]
    IN  IF n < 10 THEN <<last>> ELSE Append(PyStr(n \div 10), last)

\* f"{n:02d}" of an int n >= 0
Format02d(n) == IF n < 10 THEN <<"0">> \o PyStr(n) ELSE PyStr(n)

\* round((logged_seconds / expected_seconds) * 100, 1); division, product
\* and rounding are odd functions, so the sign is carried outside
ProgressPercent(logged, expected) ==
    IF logged >= 0
    THEN PyRound(FMulInt(FDiv(FFromInt(logged), FFromInt(expected)), 100), 1)
    ELSE DecNeg(PyRound(FMulInt(FDiv(FFromInt(0 - logged), FFromInt(expected)), 100), 1))

Mut_ProgressResult(percent, remaining) ==
    [progress_percent |-> percent,
     remaining_seconds |-> remaining,
     remaining_hours |-> PyRound(FDiv(FFromInt(remaining), FFromInt(3600)), 2),
     remaining_formatted |->
         Format02d(remaining \div 3600) \o <<":">> \o Format02d(remaining % 60)]

\* the result for a positive expected_seconds, from remaining_seconds
ProgressResult(percent, remaining) ==
    [progress_percent |-> percent,
     remaining_seconds |-> remaining,
     remaining_hours |-> PyRound(FDiv(FFromInt(remaining), FFromInt(3600)), 2),
     remaining_formatted |->
         Format02d(remaining \div 3600) \o <<":">>
             \o Format02d((remaining % 3600) \div 60)]

Mut_calculate_progress_metrics(logged, expected) ==
    IF expected > 0
    THEN ProgressResult(ProgressPercent(logged, expected),
                        IF expected - logged > 0 THEN expected - logged ELSE 0)
    ELSE ProgressResult([num |-> 0, den |-> 10],
                        IF 0 - expected > 0 THEN 0 - expected ELSE 0)

_calculate_progress_metrics(logged, expected) ==
    IF expected > 0
    THEN ProgressResult(ProgressPercent(logged, expected),
                        IF expected - logged > 0 THEN expected - logged ELSE 0)
    ELSE [progress_percent |-> [num |-> 0, den |-> 10],
          remaining_seconds |-> 0,
          remaining_hours |-> [num |-> 0, den |-> 100],
          remaining_formatted |-> <<"0", "0", ":", "0", "0">>]

\* round(seconds / 3600, 2) and the HH:MM text of a count of seconds
RoundHours(seconds) == PyRound(FDiv(FFromInt(seconds), FFromInt(3600)), 2)
FormatHHMM(seconds) ==
    Format02d(seconds \div 3600) \o <<":">> \o Format02d((seconds % 3600) \div 60)

-----------------------------------------------------------------------------
(* The current timer and its details                                       *)

\* _async_get_current_timer: the first entry of the in-progress list or
\* None; UpdateFailed on a status other than 200, and a transport error is
\* raised as it is
_async_get_current_timer(svc) ==
    IF svc.fault.at = "timer" THEN [raised |-> TRUE, current_timer |-> PyNone]
    ELSE [raised |-> FALSE,
          current_timer |-> IF svc.timer = <<>> THEN PyNone ELSE Some(svc.timer[1])]

\* _async_get_task: None on a status other than 200
_async_get_task(svc, task_id) ==
    IF svc.fault.at = "task"
    THEN [raised |-> svc.fault.how = "raises", data |-> PyNone]
    ELSE [raised |-> FALSE, data |-> Some("id" :> task_id)]

\* now - start_time in whole seconds; 0 on the ValueError of the start
ElapsedSince(start_time, now) ==
    IF start_time.raised THEN 0 ELSE IntTotalSeconds(start_time.value, now)

\* the timer's seconds once it was checked for exclusion
TimerSeconds(current_timer, call, now) ==
    [seconds |-> IF call.excluded THEN 0
                 ELSE ElapsedSince(
                          fromisoformat(current_timer.v["timeInterval"]["start"]),
                          now),
     fetched |-> call.fetched]

Mut_CurrentTimerDuration(current_timer, remote_projects, now) ==
    IF /\ Truthy(current_timer)
       /\ HasText(Get(current_timer.v, "timeInterval", EmptyDict), "start")
    THEN TimerSeconds(current_timer, Excluded(FALSE, Some(EmptyDict), <<>>), now)
    ELSE [seconds |-> 0, fetched |-> <<>>]

\* seconds the running timer adds to the totals: 0 without a start or when
\* the timer is excluded (checked with a fresh cache); with them, the
\* project ids looked up
CurrentTimerDuration(current_timer, remote_projects, now) ==
    IF /\ Truthy(current_timer)
       /\ HasText(Get(current_timer.v, "timeInterval", EmptyDict), "start")
    THEN TimerSeconds(current_timer,
                      _should_exclude_time_entry(current_timer.v, Some(EmptyDict),
                                                 remote_projects),
                      now)
    ELSE [seconds |-> 0, fetched |-> <<>>]

\* the project of the running timer, fetched when it has a project id
TimerProject(current_timer, remote_projects) ==
    IF Truthy(current_timer) /\ Get(current_timer.v, "projectId", "") # ""
    THEN _async_get_project(remote_projects, current_timer.v["projectId"])
    ELSE [raised |-> FALSE, data |-> PyNone]

\* its task, fetched when it has a task id; current_timer["projectId"] is a
\* KeyError when the timer has no such key
TimerTask(current_timer, svc) ==
    IF Truthy(current_timer) /\ Get(current_timer.v, "taskId", "") # ""
    THEN IF "projectId" \notin DOMAIN current_timer.v
         THEN [raised |-> TRUE, data |-> PyNone]
         ELSE _async_get_task(svc, current_timer.v["taskId"])
    ELSE [raised |-> FALSE, data |-> PyNone]

-----------------------------------------------------------------------------
(* _async_get_weekly_daily_breakdown.  ctx holds the arguments of the call *)
(* and the remote service: [service, projects, date, week_start_day,       *)
(* current_timer, current_timer_duration].                                 *)

\* a dict built by assigning values[i] to keys[i], in order
DictOf(keys, values) ==
    [k \in Range(keys) |->
        values[CHOOSE i \in 1..Len(keys) :
                   keys[i] = k /\ \A j \in (i + 1)..Len(keys) : keys[j] # k]]

RECURSIVE BreakdownDays(_, _, _, _)
\* day i once the timer was checked against the shared cache
BreakdownAfterTimer(ctx, i, done, sum, call) ==
    BreakdownDays(ctx, i + 1, call.project_cache,
                  Append(done,
                         [seconds |-> sum.total,
                          total_seconds |->
                              IF call.excluded THEN sum.total
                              ELSE sum.total + ctx.current_timer_duration,
                          fetched |-> sum.fetched \o call.fetched]))

\* day i once its entries are summed: today also counts the running timer
BreakdownAfterSum(ctx, i, done, sum) ==
    IF sum.raised
    THEN [raised |-> TRUE,
          days |-> Append(done, [seconds |-> 0, total_seconds |-> 0,
                                 fetched |-> sum.fetched])]
    ELSE IF /\ DateOf(BreakdownDayWindow(ctx.date, ctx.week_start_day, i).start)
                   = DateOf(ctx.date)
            /\ Truthy(ctx.current_timer)
    THEN BreakdownAfterTimer(ctx, i, done, sum,
             _should_exclude_time_entry(ctx.current_timer.v, sum.project_cache,
                                        ctx.projects))
    ELSE BreakdownDays(ctx, i + 1, sum.project_cache,
                       Append(done, [seconds |-> sum.total,
                                     total_seconds |-> sum.total,
                                     fetched |-> sum.fetched]))

\* day i once its query is answered: a status other than 200 leaves 0; a
\* transport error ends the loop, as the ValueError of a timestamp does
BreakdownAfterFetch(ctx, i, cache, done, response) ==
    IF response.raises THEN [raised |-> TRUE, days |-> done]
    ELSE BreakdownAfterSum(ctx, i, done,
             IF response.status = 200
             THEN SumEntries(response.body, SumFrom(cache), ctx.projects)
             ELSE SumFrom(cache))

\* the loop over the seven days from day i on
BreakdownDays(ctx, i, cache, done) ==
    IF i = 7 THEN [raised |-> FALSE, days |-> done]
    ELSE BreakdownAfterFetch(ctx, i, cache, done,
             TimeEntriesResponse(ctx.service, "day", i,
                 BreakdownDayWindow(ctx.date, ctx.week_start_day, i)))

\* the project ids looked up over the days, in order
RECURSIVE Lookups(_)
Lookups(days) ==
    IF days = <<>> THEN <<>> ELSE Head(days).fetched \o Lookups(Tail(days))

Mut_BreakdownDicts(week_day_order, loop) ==
    IF loop.raised
    THEN [daily_breakdown |-> EmptyDict,
          daily_breakdown_total |-> EmptyDict,
          daily_breakdown_formatted |-> EmptyDict,
          daily_breakdown_total_formatted |-> EmptyDict,
          fetched |-> Lookups(loop.days)]
    ELSE [daily_breakdown |->
              DictOf(week_day_order,
                     [i \in 1..7 |-> RoundHours(loop.days[i].seconds)]),
          daily_breakdown_total |->
              DictOf(week_day_order,
                     [i \in 1..7 |-> RoundHours(loop.days[i].total_seconds)]),
          daily_breakdown_formatted |->
              DictOf(week_day_order,
                     [i \in 1..7 |-> FormatHHMM(loop.days[i].seconds)]),
          daily_breakdown_total_formatted |->
              DictOf(week_day_order,
                     [i \in 1..7 |-> FormatHHMM(loop.days[i].total_seconds)]),
          fetched |-> Lookups(loop.days)]

\* the four dicts: zero for every day when the loop raised
BreakdownDicts(week_day_order, loop) ==
    IF loop.raised
    THEN [daily_breakdown |->
              [d \in Range(week_day_order) |-> [num |-> 0, den |-> 100]],
          daily_breakdown_total |->
              [d \in Range(week_day_order) |-> [num |-> 0, den |-> 100]],
          daily_breakdown_formatted |->
              [d \in Range(week_day_order) |-> <<"0", "0", ":", "0", "0">>],
          daily_breakdown_total_formatted |->
              [d \in Range(week_day_order) |-> <<"0", "0", ":", "0", "0">>],
          fetched |-> Lookups(loop.days)]
    ELSE [daily_breakdown |->
              DictOf(week_day_order,
                     [i \in 1..7 |-> RoundHours(loop.days[i].seconds)]),
          daily_breakdown_total |->
              DictOf(week_day_order,
                     [i \in 1..7 |-> RoundHours(loop.days[i].total_seconds)]),
          daily_breakdown_formatted |->
              DictOf(week_day_order,
                     [i \in 1..7 |-> FormatHHMM(loop.days[i].seconds)]),
          daily_breakdown_total_formatted |->
              DictOf(week_day_order,
                     [i \in 1..7 |-> FormatHHMM(loop.days[i].total_seconds)]),
          fetched |-> Lookups(loop.days)]

_async_get_weekly_daily_breakdown(ctx) ==
    BreakdownDicts(_get_week_day_order(ctx.week_start_day),
                   BreakdownDays(ctx, 0, Some(EmptyDict), <<>>))

-----------------------------------------------------------------------------
(* _async_update_data: one refresh of the coordinator                      *)

\* _async_get_member_profile: the JSON body on status 200, else None
_async_get_member_profile(response) ==
    IF response.status # 200 THEN PyNone ELSE Some(response.body)

NoWindows == EmptyDict

\* a run that ends in UpdateFailed
Failed(windows, calendar) ==
    [outcome |-> "UpdateFailed", result |-> EmptyDict,
     sent |-> windows, trace |-> calendar]

\* the six progress metrics, from the time summaries and the expected hours
ProgressAll(times, expected) ==
    [daily |->
         _calculate_progress_metrics(times.daily_duration,
                                     expected.daily_expected_seconds),
     daily_total |->
         _calculate_progress_metrics(times.daily_total,
                                     expected.daily_expected_seconds),
     weekly |->
         _calculate_progress_metrics(times.weekly_duration,
                                     expected.weekly_expected_seconds),
     weekly_total |->
         _calculate_progress_metrics(times.weekly_total,
                                     expected.weekly_expected_seconds),
     weekly_to_date |->
         _calculate_progress_metrics(times.weekly_duration,
                                     expected.weekly_to_date_expected_seconds),
     weekly_to_date_total |->
         _calculate_progress_metrics(times.weekly_total,
                                     expected.weekly_to_date_expected_seconds)]

\* the dict a run returns
ResultDict(now, weekly, expected, times, breakdown, progress) ==
            [current_timer |-> times.current_timer,
             project |-> times.project,
             task |-> times.task,
             daily_duration |-> times.daily_duration,
             weekly_duration |-> times.weekly_duration,
             daily_total |-> times.daily_total,
             weekly_total |-> times.weekly_total,
             current_date |-> DateOf(now),
             week_start |-> DateOf(weekly.start),
             week_end |-> DateOf(weekly.end),
             daily_breakdown |-> breakdown.daily_breakdown,
             daily_breakdown_total |-> breakdown.daily_breakdown_total,
             daily_breakdown_formatted |-> breakdown.daily_breakdown_formatted,
             daily_breakdown_total_formatted |->
                 breakdown.daily_breakdown_total_formatted,
             daily_expected_seconds |-> expected.daily_expected_seconds,
             weekly_expected_seconds |-> expected.weekly_expected_seconds,
             weekly_to_date_expected_seconds |->
                 expected.weekly_to_date_expected_seconds,
             weekly_remaining_expected_seconds |->
                 expected.weekly_remaining_expected_seconds,
             working_days |-> expected.working_days,
             daily_progress_percent |-> progress.daily.progress_percent,
             daily_remaining_seconds |-> progress.daily.remaining_seconds,
             daily_remaining_hours |-> progress.daily.remaining_hours,
             daily_remaining_formatted |-> progress.daily.remaining_formatted,
             daily_total_progress_percent |-> progress.daily_total.progress_percent,
             daily_total_remaining_seconds |-> progress.daily_total.remaining_seconds,
             daily_total_remaining_hours |-> progress.daily_total.remaining_hours,
             daily_total_remaining_formatted |-> progress.daily_total.remaining_formatted,
             weekly_progress_percent |-> progress.weekly.progress_percent,
             weekly_remaining_seconds |-> progress.weekly.remaining_seconds,
             weekly_remaining_hours |-> progress.weekly.remaining_hours,
             weekly_remaining_formatted |-> progress.weekly.remaining_formatted,
             weekly_total_progress_percent |-> progress.weekly_total.progress_percent,
             weekly_total_remaining_seconds |-> progress.weekly_total.remaining_seconds,
             weekly_total_remaining_hours |-> progress.weekly_total.remaining_hours,
             weekly_total_remaining_formatted |-> progress.weekly_total.remaining_formatted,
             weekly_to_date_progress_percent |-> progress.weekly_to_date.progress_percent,
             weekly_to_date_remaining_seconds |-> progress.weekly_to_date.remaining_seconds,
             weekly_to_date_remaining_hours |-> progress.weekly_to_date.remaining_hours,
             weekly_to_date_remaining_formatted |-> progress.weekly_to_date.remaining_formatted,
             weekly_to_date_total_progress_percent |-> progress.weekly_to_date_total.progress_percent,
             weekly_to_date_total_remaining_seconds |-> progress.weekly_to_date_total.remaining_seconds,
             weekly_to_date_total_remaining_hours |-> progress.weekly_to_date_total.remaining_hours,
             weekly_to_date_total_remaining_formatted |-> progress.weekly_to_date_total.remaining_formatted]

\* the end of a run: expected_hours raised, or the data is returned
UpdateResult(now, weekly, windows, calendar, expected_hours, times, breakdown) ==
    IF expected_hours.raised THEN Failed(windows, calendar)
    ELSE [outcome |-> "ok",
          result |-> ResultDict(now, weekly, expected_hours.result, times,
                                breakdown,
                                ProgressAll(times, expected_hours.result)),
          sent |-> windows,
          trace |-> calendar @@ ("exclusion_lookups" :>
                                     times.fetched \o breakdown.fetched)]

\* the windows queried for today, the week and its seven days
Windows(now, week_start_day) ==
    [daily  |-> DailyWindow(now),
     weekly |-> WeeklyWindow(now, week_start_day),
     days   |-> [i \in 1..7 |-> BreakdownDayWindow(now, week_start_day, i - 1)]]

\* the week-calendar values of a run
Calendar(now, week_start_day, current_timer_duration) ==
    [week_start_day |-> week_start_day,
     week_start_offset |-> _get_week_start_offset(week_start_day),
     days_since_week_start |->
         _calculate_days_since_week_start(now, week_start_day),
     week_day_order |-> _get_week_day_order(week_start_day),
     current_timer_duration |-> current_timer_duration]

\* the run from the details of the running timer on: a lookup that raises
\* ends the run; else the breakdown, the expected hours and the result
UpdateDetails(user_schedule, week_start_day, io, times) ==
    IF times.project_raised \/ times.task_raised
    THEN Failed(Windows(io.now, week_start_day),
                Calendar(io.now, week_start_day, times.current_timer_duration))
    ELSE UpdateResult(
             io.now,
             WeeklyWindow(io.now, week_start_day),
             Windows(io.now, week_start_day),
             Calendar(io.now, week_start_day, times.current_timer_duration),
             _calculate_expected_hours(user_schedule, io.now, week_start_day),
             times,
             _async_get_weekly_daily_breakdown(
                 [service |-> io.service, projects |-> io.projects,
                  date |-> io.now, week_start_day |-> week_start_day,
                  current_timer |-> times.current_timer,
                  current_timer_duration |-> times.current_timer_duration]))

\* the time summaries, the totals with the running timer, and its details
Times(io, current_timer, timer_check, daily, weekly, project, task) ==
    [current_timer |-> current_timer,
     current_timer_duration |-> timer_check.seconds,
     daily_duration |-> daily.total,
     weekly_duration |-> weekly.total,
     daily_total |-> daily.total + timer_check.seconds,
     weekly_total |-> weekly.total + timer_check.seconds,
     fetched |-> daily.fetched \o weekly.fetched \o timer_check.fetched,
     project |-> project.data,
     project_raised |-> project.raised,
     task |-> task.data,
     task_raised |-> task.raised]

\* the run once the current timer is fetched: a failed fetch ends it
UpdateTimer(user_schedule, week_start_day, io, fetched) ==
    IF fetched.raised THEN Failed(NoWindows, EmptyDict)
    ELSE UpdateDetails(
             user_schedule, week_start_day, io,
             Times(io, fetched.current_timer,
                   CurrentTimerDuration(fetched.current_timer, io.projects, io.now),
                   _async_get_daily_time(io.service, io.projects, io.now),
                   _async_get_weekly_time(io.service, io.projects, io.now,
                                          week_start_day),
                   TimerProject(fetched.current_timer, io.projects),
                   TimerTask(fetched.current_timer, io.service)))

\* the run from the current timer on
UpdateAt(user_schedule, week_start_day, io) ==
    UpdateTimer(user_schedule, week_start_day, io,
                _async_get_current_timer(io.service))

\* the run once the member profile is fetched
UpdateWith(member_profile, io) ==
    UpdateAt(IF Truthy(member_profile) THEN member_profile ELSE PyNone,
             IF Truthy(member_profile)
             THEN Get(member_profile.v, "weekStart", "MONDAY") ELSE "MONDAY",
             io)

\* What one run does with the responses io = [user_status, profile, now,
\* service, projects]: how it ends, what it returns, the windows it
\* queried, its week calendar.
_async_update_data(io) ==
    IF io.user_status # 200 THEN Failed(NoWindows, EmptyDict)
    ELSE UpdateWith(_async_get_member_profile(io.profile), io)

-----------------------------------------------------------------------------
(* The inputs of a refresh: the clock and the remote service's responses   *)

MaxDay == 7

TimesOfDay ==
    <<[sec |-> 0, us |-> 0], [sec |-> 45296, us |-> 500000],
      [sec |-> 86399, us |-> 999999]>>

\* the instant after c among the instants of the model
NextInstant(c) ==
    LET i == CHOOSE j \in 1..Len(TimesOfDay) :
                 TimesOfDay[j] = [sec |-> c.sec, us |-> c.us]
    IN  IF i < Len(TimesOfDay)
        THEN [day |-> c.day, sec |-> TimesOfDay[i + 1].sec, us |-> TimesOfDay[i + 1].us]
        ELSE [day |-> c.day + 1, sec |-> TimesOfDay[1].sec, us |-> TimesOfDay[1].us]

FirstInstant == [day |-> 0, sec |-> TimesOfDay[1].sec, us |-> TimesOfDay[1].us]

PT7H30M == <<"P", "T", "7", "H", "3", "0", "M">>
PT1H5M == <<"P", "T", "1", "H", "5", "M">>
PT20M == <<"P", "T", "2", "0", "M">>
Unprefixed == <<"8", "H">>
PTnanH == <<"P", "T", "n", "a", "n", "H">>

MonToFri == <<"MONDAY", "TUESDAY", "WEDNESDAY", "THURSDAY", "FRIDAY">>

DayLists ==
    {MonToFri, <<>>, <<"SATURDAY", "SUNDAY">>,
     <<"SUNDAY", "MONDAY", "WEDNESDAY", "FRIDAY">>,
     <<"MONDAY", "TUESDAY", "WEDNESDAY", "THURSDAY", "FRIDAY", "SATURDAY", "SUNDAY">>,
     <<"TUESDAY", "FUNDAY">>, <<"Sunday", "Fr", "", "monday">>}

WorkingDaysValues ==
    {[isStr |-> FALSE, json |-> FALSE, list |-> l] : l \in DayLists}
    \cup {[isStr |-> TRUE, json |-> TRUE, list |-> l] :
             l \in {MonToFri, <<"SATURDAY", "SUNDAY">>}}
    \cup {[isStr |-> TRUE, json |-> FALSE, list |-> <<>>]}

MemberForms ==
    {("workCapacity" :> d) @@ ("workingDays" :> wd) :
        d \in {PT8H, PT7H30M, PT1H5M, Unprefixed, PTnanH}, wd \in WorkingDaysValues}

WorkDay(d) == ("isWorkDay" :> TRUE) @@ ("duration" :> d)
OffDay(d) == ("isWorkDay" :> FALSE) @@ ("duration" :> d)

WorkWeeks ==
    {[k \in {"monday", "tuesday", "wednesday", "thursday"} |-> WorkDay(d1)]
        @@ ("friday" :> WorkDay(d2)) @@ ("saturday" :> OffDay(PT8H)) :
        d1 \in {PT8H, PT1H5M, PT20M}, d2 \in {PT8H, PT7H30M, PT1H5M}}
    \cup {("saturday" :> WorkDay(PT1H5M)) @@ ("sunday" :> WorkDay(PT1H5M)),
          ("monday" :> ("isWorkDay" :> TRUE)) @@ ("tuesday" :> ("duration" :> PT8H)),
          ("monday" :> WorkDay(PT8H)) @@ ("wednesday" :> WorkDay(PTnanH)),
          ("monday" :> WorkDay(PT8H)) @@ ("tuesday" :> OffDay(PTnanH)),
          ("thursday" :> WorkDay(Unprefixed)) @@ ("sunday" :> WorkDay(PT7H30M)),
          ("monday" :> OffDay(PT8H))}

WorkWeekForms == {"workWeek" :> ww : ww \in WorkWeeks}

HoursValues ==
    {[isInt |-> TRUE, num |-> 8, den |-> 1], [isInt |-> FALSE, num |-> 75, den |-> 10],
     [isInt |-> FALSE, num |-> 76, den |-> 10]}

LegacyForms ==
    {("daysOfWeek" :> l) @@ ("hoursPerDay" :> n) :
        l \in {MonToFri, <<"SATURDAY", "SUNDAY">>, <<"TUESDAY", "FUNDAY">>,
                <<"Sunday", "Fr", "", "monday">>},
        n \in HoursValues}
    \cup {"daysOfWeek" :> MonToFri}

\* payloads of none of the three shapes
OtherForms ==
    {EmptyDict, "workCapacity" :> PT8H,
     "workingDays" :> [isStr |-> FALSE, json |-> FALSE, list |-> MonToFri],
     "workWeek" :> EmptyDict,
     ("daysOfWeek" :> <<>>) @@ ("hoursPerDay" :> [isInt |-> TRUE, num |-> 8, den |-> 1])}

\* payloads of more than one shape
MixedForms ==
    {("workCapacity" :> PT8H)
        @@ ("workingDays" :> [isStr |-> FALSE, json |-> FALSE, list |-> MonToFri])
        @@ ("workWeek" :> ("saturday" :> WorkDay(PT1H5M))),
     ("workWeek" :> ("saturday" :> WorkDay(PT1H5M)))
        @@ ("daysOfWeek" :> MonToFri),
     ("workWeek" :> ("sunday" :> WorkDay(PT8H)))
        @@ ("daysOfWeek" :> MonToFri)
        @@ ("hoursPerDay" :> [isInt |-> FALSE, num |-> 75, den |-> 10]),
     ("workCapacity" :> PT7H30M)
        @@ ("workingDays" :> [isStr |-> FALSE, json |-> FALSE, list |-> MonToFri])
        @@ ("daysOfWeek" :> <<"SATURDAY", "SUNDAY">>)
        @@ ("hoursPerDay" :> [isInt |-> TRUE, num |-> 8, den |-> 1]),
     ("workWeek" :> EmptyDict) @@ ("daysOfWeek" :> <<"SATURDAY", "SUNDAY">>),
     ("workWeek" :> ("monday" :> OffDay(PT8H)))
        @@ ("daysOfWeek" :> <<"SATURDAY", "SUNDAY">>)}

WeekStartParts ==
    {EmptyDict} \cup {"weekStart" :> w : w \in {"SUNDAY", "SATURDAY", "FUNDAY"}}

ProfileBodies ==
    {ws @@ f : ws \in WeekStartParts,
               f \in MemberForms \cup WorkWeekForms \cup LegacyForms
                        \cup OtherForms \cup MixedForms}

ProfileResponses ==
    {[status |-> 200, body |-> b] : b \in ProfileBodies}
    \cup {[status |-> 404, body |-> EmptyDict]}

UserStatuses == {200, 401}

Project(name) == [raises |-> FALSE, status |-> 200,
                  body |-> ("id" :> "p") @@ ("name" :> name)]

\* the remote service with no running timer, no time entry and no fault
QuietService == [timer |-> <<>>, entries |-> <<>>, fault |-> NoFault]

\* hh:mm on day d
At(d, hh, mm) == [day |-> d, sec |-> hh * 3600 + mm * 60, us |-> 0]

Closed(type, from, to) ==
    ("type" :> type) @@ ("timeInterval" :> [start |-> from, end |-> to])
ClosedIn(project_id, from, to) ==
    ("type" :> "REGULAR") @@ ("projectId" :> project_id)
        @@ ("timeInterval" :> [start |-> from, end |-> to])
Running(type, from) ==
    ("type" :> type) @@ ("timeInterval" :> [start |-> from])

\* the running timer was started 45 minutes before the first refresh
TimerStart == [day |-> -1, sec |-> 23 * 3600 + 15 * 60, us |-> 0]

Timers ==
    {<<>>,
     <<Running("REGULAR", TimerStart)>>,
     <<Running("BREAK", TimerStart)>>,
     <<("projectId" :> "p1") @@ Running("REGULAR", TimerStart)>>,
     <<("projectId" :> "p1") @@ ("taskId" :> "t1") @@ Running("REGULAR", TimerStart)>>,
     <<("taskId" :> "t1") @@ Running("REGULAR", TimerStart)>>,
     <<("type" :> "REGULAR") @@ ("timeInterval" :> EmptyDict)>>}

\* Monday 1970-01-05 (day 4) worked 09:00-12:00 and 13:00-17:00 with a
\* break 17:00-17:30; a project entry on the Tuesday, a short one on the
\* Friday before, and the running entry in the list
WorkdayEntries ==
    <<Running("REGULAR", TimerStart),
      Closed("REGULAR", At(1, 8, 0), At(1, 9, 5)),
      Closed("REGULAR", At(4, 9, 0), At(4, 12, 0)),
      Closed("REGULAR", At(4, 13, 0), At(4, 17, 0)),
      Closed("BREAK", At(4, 17, 0), At(4, 17, 30)),
      ClosedIn("p1", At(5, 10, 0), At(5, 12, 0))>>

\* entries over the first days: one in a project, one of 1.999999 seconds,
\* one across midnight, one break
FirstDaysEntries ==
    <<ClosedIn("p1", At(0, 10, 0), At(0, 11, 30)),
      Closed("REGULAR", At(0, 12, 0),
             [day |-> 0, sec |-> 12 * 3600 + 1, us |-> 999999]),
      Closed("BREAK", At(1, 12, 0), At(1, 12, 45)),
      Closed("REGULAR", At(2, 23, 30), At(3, 0, 30)),
      ClosedIn("p9", At(3, 9, 0), At(3, 9, 20))>>

EntryLists == {<<>>, WorkdayEntries, FirstDaysEntries}

Faults ==
    {[at |-> a, i |-> 0, how |-> h] :
        a \in {"timer", "daily", "weekly", "task"}, h \in {"status", "raises"}}
    \cup {[at |-> "day", i |-> i, how |-> h] :
             i \in {0, 4}, h \in {"status", "raises"}}

TimerProjectTables ==
    {("p1" :> a) :
        a \in {Project("Breaks"), Project("Work"), NotFound,
               [raises |-> TRUE, status |-> 0, body |-> EmptyDict]}}

\* a member profile of 7.5 hours Monday to Friday, no profile (404), and a
\* profile request that raised (no status)
FewProfiles ==
    {[status |-> 200,
      body |-> ("workCapacity" :> PT7H30M)
                   @@ ("workingDays" :>
                           [isStr |-> FALSE, json |-> FALSE, list |-> MonToFri])],
     [status |-> 404, body |-> EmptyDict],
     [status |-> 0, body |-> EmptyDict]}

\* no timer, or a timer in a project
FaultTimers == {tm \in Timers : Len(tm) = 1 => "projectId" \in DOMAIN tm[1]}

\* what the remote service holds for this user: every profile with a quiet
\* service; a few profiles with every timer, entry list and project table;
\* the default schedule with every fault
Remotes ==
    {[profile |-> pr, service |-> QuietService, projects |-> EmptyDict] :
        pr \in ProfileResponses}
    \cup {[profile |-> pr,
           service |-> [timer |-> t, entries |-> es, fault |-> NoFault],
           projects |-> pt] :
             pr \in FewProfiles, t \in Timers, es \in EntryLists,
             pt \in TimerProjectTables}
    \cup {[profile |-> [status |-> 404, body |-> EmptyDict],
           service |-> [timer |-> t, entries |-> WorkdayEntries, fault |-> f],
           projects |-> pt] :
             t \in FaultTimers, f \in Faults,
             pt \in {("p1" :> Project("Work")),
                     ("p1" :> [raises |-> TRUE, status |-> 0, body |-> EmptyDict])}}

\* instant t sent as a text that is not an ISO timestamp
Garbled(t, text) == [day |-> t.day, sec |-> t.sec, us |-> t.us, text |-> text]

\* Monday 1970-01-05: an hour worked and an entry whose end cannot be read;
\* two hours on the Tuesday; an entry with an empty start on the Wednesday;
\* on the Thursday an entry whose start cannot be read and half an hour
GarbledEntries ==
    <<Closed("REGULAR", At(4, 9, 0), At(4, 10, 0)),
      Closed("REGULAR", At(4, 10, 0), Garbled(At(4, 11, 0), "not-a-time")),
      Closed("REGULAR", At(5, 9, 0), At(5, 11, 0)),
      Closed("REGULAR", Garbled(At(6, 9, 0), ""), At(6, 10, 0)),
      Closed("REGULAR", Garbled(At(7, 9, 0), "not-a-time"), At(7, 10, 0)),
      Closed("REGULAR", At(7, 10, 0), At(7, 10, 30))>>

GarbledTimers ==
    {<<>>,
     <<Running("REGULAR", TimerStart)>>,
     <<Running("REGULAR", Garbled(TimerStart, "not-a-time"))>>}

\* a remote service that sends timestamps the code cannot read
GarbledRemotes ==
    {[profile |-> pr,
      service |-> [timer |-> t, entries |-> GarbledEntries, fault |-> NoFault],
      projects |-> EmptyDict] :
        pr \in FewProfiles, t \in GarbledTimers}

NoInput == [user_status |-> 0, profile |-> [status |-> 0, body |-> EmptyDict],
            now |-> FirstInstant]

NoMetrics == [called |-> FALSE, value |-> EmptyDict]
NotExcluded == [called |-> FALSE, value |-> FALSE, given |-> PyNone, fetched |-> <<>>]
NoDuration == <<>>
NoTotal == [called |-> FALSE, value |-> 0]
NoCall == [called |-> FALSE, coordinator |-> 0, answer |-> 0, raised |-> FALSE,
           returned |-> FALSE, posted |-> <<>>, refresh_requested |-> FALSE]
NotParsed == [called |-> FALSE, value |-> FFromInt(0)]

-----------------------------------------------------------------------------
(* The coordinator polls: every refresh is one run of _async_update_data   *)
(* at the current instant, and time passes between two refreshes.          *)

Init ==
    /\ result = EmptyDict
    /\ outcome = "none"
    /\ inp = NoInput
    /\ clock = FirstInstant
    /\ \E r \in Remotes :
        /\ remote = r.profile
        /\ service = r.service
        /\ projects = r.projects
    /\ sent = NoWindows
    /\ trace = EmptyDict
    /\ duration = NoDuration
    /\ parsed = NotParsed
    /\ logged_seconds = 0
    /\ expected_seconds = 0
    /\ metrics = NoMetrics
    /\ entry = EmptyDict
    /\ project_cache = PyNone
    /\ excluded = NotExcluded
    /\ service_call = NoCall
    /\ created = 0
    /\ services = EmptyDict
    /\ hass_data = EmptyDict
    /\ config_entries = EmptyDict
    /\ period_total = NoTotal
    /\ listing = <<>>

Refresh ==
    /\ clock.day <= MaxDay
    /\ \E user_status \in UserStatuses :
        \E run \in {_async_update_data(
                        [user_status |-> user_status, profile |-> remote,
                         now |-> clock, service |-> service,
                         projects |-> projects])} :
            /\ result' = run.result
            /\ outcome' = run.outcome
            /\ inp' = [user_status |-> user_status, profile |-> remote, now |-> clock]
            /\ sent' = run.sent
            /\ trace' = run.trace
    /\ clock' = NextInstant(clock)
    /\ UNCHANGED <<remote, duration, parsed,
                   logged_seconds, expected_seconds, metrics,
                   service, projects, entry, project_cache, excluded,
                   listing,
                   period_total,
                   config_entries,
                   hass_data,
                   services,
                   created,
                   service_call>>

Next == Refresh

Spec == Init /\ [][Next]_vars

\* the same coordinator polling a remote service some of whose timestamps
\* cannot be read
InitGarbled ==
    /\ result = EmptyDict
    /\ outcome = "none"
    /\ inp = NoInput
    /\ clock = FirstInstant
    /\ \E r \in GarbledRemotes :
        /\ remote = r.profile
        /\ service = r.service
        /\ projects = r.projects
    /\ sent = NoWindows
    /\ trace = EmptyDict
    /\ duration = NoDuration
    /\ parsed = NotParsed
    /\ logged_seconds = 0
    /\ expected_seconds = 0
    /\ metrics = NoMetrics
    /\ entry = EmptyDict
    /\ project_cache = PyNone
    /\ excluded = NotExcluded
    /\ service_call = NoCall
    /\ created = 0
    /\ services = EmptyDict
    /\ hass_data = EmptyDict
    /\ config_entries = EmptyDict
    /\ listing = <<>>
    /\ period_total = NoTotal

SpecGarbled == InitGarbled /\ [][Next]_vars

-----------------------------------------------------------------------------
(* _parse_iso_duration on its own: the argument is drawn from the strings  *)
(* over a small alphabet and from prefix / hour field / minute field       *)
(* combinations, and one call is made.                                     *)

MaxStrLen == 4

ParseAlphabet == {"P", "T", "H", "M", "6", "n", "a"}

RECURSIVE StringsUpTo(_)
StringsUpTo(n) ==
    IF n = 0 THEN {<<>>}
    ELSE LET shorter == StringsUpTo(n - 1)
         IN  shorter \cup {Append(x, c) : x \in shorter, c \in ParseAlphabet}

Fields ==
    {<<>>, <<"0">>, <<"6">>, <<"3", "0">>, <<"0", "5">>, <<"1", "2", "0">>,
     <<"n", "a", "n">>, <<"x">>, <<"6", "x">>}

ComposedDurations ==
    {pre \o hf \o hs \o mf \o ms :
        pre \in {<<"P", "T">>, <<"P">>, <<>>, <<"p", "t">>},
        hf \in Fields, hs \in {<<"H">>, <<>>},
        mf \in Fields, ms \in {<<"M">>, <<>>}}

DurationInputs == StringsUpTo(MaxStrLen) \cup ComposedDurations

InitParse ==
    /\ result = EmptyDict
    /\ outcome = "none"
    /\ inp = NoInput
    /\ clock = FirstInstant
    /\ remote = [status |-> 404, body |-> EmptyDict]
    /\ sent = NoWindows
    /\ trace = EmptyDict
    /\ duration \in DurationInputs
    /\ parsed = NotParsed
    /\ logged_seconds = 0
    /\ expected_seconds = 0
    /\ metrics = NoMetrics
    /\ service = QuietService
    /\ projects = EmptyDict
    /\ entry = EmptyDict
    /\ project_cache = PyNone
    /\ excluded = NotExcluded
    /\ service_call = NoCall
    /\ created = 0
    /\ services = EmptyDict
    /\ hass_data = EmptyDict
    /\ config_entries = EmptyDict
    /\ period_total = NoTotal
    /\ listing = <<>>

Parse ==
    /\ ~parsed.called
    /\ parsed' = [called |-> TRUE, value |-> _parse_iso_duration(duration)]
    /\ UNCHANGED <<result, outcome, inp, clock, remote, sent, trace, duration,
                   logged_seconds, expected_seconds, metrics,
                   service, projects, entry, project_cache, excluded,
                   listing,
                   period_total,
                   config_entries,
                   hass_data,
                   services,
                   created,
                   service_call>>

NextParse == Parse

SpecParse == InitParse /\ [][NextParse]_vars

-----------------------------------------------------------------------------
(* _calculate_progress_metrics on its own: both arguments are drawn from   *)
(* second counts around zero, a minute, an hour, a working day and a week, *)
(* and one call is made.                                                   *)

LoggedValues ==
    {-3600, -1, 0, 1, 3, 18, 59, 60, 61, 1799, 1800, 3599, 3600, 3601, 25200,
     27000, 28799, 28800, 28801, 28814, 28815, 30000, 86399, 144000, 360000}

ExpectedValues ==
    {-28800, -1, 0, 1, 3, 7, 16, 60, 3600, 3899, 27000, 28800, 144000,
     360000, 720000}

InitProgress ==
    /\ result = EmptyDict
    /\ outcome = "none"
    /\ inp = NoInput
    /\ clock = FirstInstant
    /\ remote = [status |-> 404, body |-> EmptyDict]
    /\ sent = NoWindows
    /\ trace = EmptyDict
    /\ duration = NoDuration
    /\ parsed = NotParsed
    /\ logged_seconds \in LoggedValues
    /\ expected_seconds \in ExpectedValues
    /\ metrics = NoMetrics
    /\ service = QuietService
    /\ projects = EmptyDict
    /\ entry = EmptyDict
    /\ project_cache = PyNone
    /\ excluded = NotExcluded
    /\ service_call = NoCall
    /\ created = 0
    /\ services = EmptyDict
    /\ hass_data = EmptyDict
    /\ config_entries = EmptyDict
    /\ period_total = NoTotal
    /\ listing = <<>>

Progress ==
    /\ ~metrics.called
    /\ metrics' = [called |-> TRUE,
                   value |-> _calculate_progress_metrics(logged_seconds,
                                                         expected_seconds)]
    /\ UNCHANGED <<result, outcome, inp, clock, remote, sent, trace, duration,
                   parsed, logged_seconds, expected_seconds,
                   service, projects, entry, project_cache, excluded,
                   listing,
                   period_total,
                   config_entries,
                   hass_data,
                   services,
                   created,
                   service_call>>

NextProgress == Progress

SpecProgress == InitProgress /\ [][NextProgress]_vars

-----------------------------------------------------------------------------
(* _should_exclude_time_entry on its own: the remote project table and the *)
(* cache first passed are drawn, and calls are made one after another on   *)
(* entries of every type and project id, each with the cache the previous  *)
(* call left.                                                              *)

FirstProjectAnswers ==
    {Project("Breaks"), Project("BREAKS"), Project("breaks"), Project("Work"),
     Project("Break"), Project("bReAkS"),
     [raises |-> FALSE, status |-> 200, body |-> ("id" :> "p")],
     [raises |-> FALSE, status |-> 200, body |-> EmptyDict],
     [raises |-> FALSE, status |-> 404, body |-> ("name" :> "Breaks")],
     [raises |-> TRUE, status |-> 0, body |-> EmptyDict]}

ProjectTables ==
    {("p1" :> a) @@ ("p2" :> b) :
        a \in FirstProjectAnswers, b \in {Project("breaks"), Project("Work")}}

FirstCaches ==
    {PyNone, Some(EmptyDict),
     Some("p1" :> Some(("id" :> "p") @@ ("name" :> "Breaks"))),
     Some("p1" :> PyNone),
     Some("p2" :> Some(("id" :> "p") @@ ("name" :> "Work")))}

EntryTypes == {"REGULAR", "BREAK", "break"}
EntryProjects == {"", "p1", "p2", "p9"}

TimeEntries ==
    {("type" :> t) @@ ("projectId" :> p) : t \in EntryTypes, p \in EntryProjects}
        \cup {("projectId" :> p) : p \in EntryProjects}
        \cup {("type" :> t) : t \in EntryTypes}
        \cup {EmptyDict}

InitExclude ==
    /\ result = EmptyDict
    /\ outcome = "none"
    /\ inp = NoInput
    /\ clock = FirstInstant
    /\ remote = [status |-> 404, body |-> EmptyDict]
    /\ sent = NoWindows
    /\ trace = EmptyDict
    /\ duration = NoDuration
    /\ parsed = NotParsed
    /\ logged_seconds = 0
    /\ expected_seconds = 0
    /\ metrics = NoMetrics
    /\ service = QuietService
    /\ projects \in ProjectTables
    /\ entry = EmptyDict
    /\ project_cache \in FirstCaches
    /\ excluded = NotExcluded
    /\ service_call = NoCall
    /\ created = 0
    /\ services = EmptyDict
    /\ hass_data = EmptyDict
    /\ config_entries = EmptyDict
    /\ period_total = NoTotal
    /\ listing = <<>>

Exclude ==
    /\ \E e \in TimeEntries :
        \E call \in {_should_exclude_time_entry(e, project_cache, projects)} :
            /\ entry' = e
            /\ project_cache' = call.project_cache
            /\ excluded' = [called |-> TRUE, value |-> call.excluded,
                            given |-> project_cache, fetched |-> call.fetched]
    /\ UNCHANGED <<result, outcome, inp, clock, remote, sent, trace, duration,
                   parsed, logged_seconds, expected_seconds, metrics,
                   service, projects,
                   listing,
                   period_total,
                   config_entries,
                   hass_data,
                   services,
                   created,
                   service_call>>

NextExclude == Exclude

SpecExclude == InitExclude /\ [][NextExclude]_vars

-----------------------------------------------------------------------------
(* The summation of one time-entries response on its own: the entries of   *)
(* the period and the project table are drawn, and the response is summed  *)
(* in the order the service lists the entries, which changes from one      *)
(* query to the next.                                                      *)

\* two entries of the same project, one of another project, a break, an
\* entry of 1.999999 seconds and a running one
SameProjectEntries ==
    <<ClosedIn("p1", At(4, 9, 0), At(4, 10, 0)),
      Closed("BREAK", At(4, 10, 0), At(4, 10, 15)),
      ClosedIn("p1", At(4, 10, 15), At(4, 10, 45)),
      ClosedIn("p2", At(4, 11, 0), At(4, 11, 20)),
      Closed("REGULAR", At(4, 12, 0),
             [day |-> 4, sec |-> 12 * 3600 + 1, us |-> 999999]),
      Running("REGULAR", At(4, 13, 0))>>

Listings == {FirstDaysEntries, WorkdayEntries, SameProjectEntries}

SumProjectTables ==
    {("p1" :> a) @@ ("p2" :> b) :
        a \in {Project("Breaks"), Project("Work"), NotFound,
               [raises |-> TRUE, status |-> 0, body |-> EmptyDict]},
        b \in {Project("breaks"), Project("Work")}}

\* the listing with entries i and i + 1 exchanged
Swap(entries, i) ==
    [k \in 1..Len(entries) |->
        IF k = i THEN entries[i + 1] ELSE IF k = i + 1 THEN entries[i] ELSE entries[k]]

\* the orders the next response can list the same entries in
Orders(entries) ==
    {entries} \cup {Swap(entries, i) : i \in 1..(Len(entries) - 1)}

InitSum ==
    /\ result = EmptyDict
    /\ outcome = "none"
    /\ inp = NoInput
    /\ clock = FirstInstant
    /\ remote = [status |-> 404, body |-> EmptyDict]
    /\ sent = NoWindows
    /\ trace = EmptyDict
    /\ duration = NoDuration
    /\ parsed = NotParsed
    /\ logged_seconds = 0
    /\ expected_seconds = 0
    /\ metrics = NoMetrics
    /\ service = QuietService
    /\ projects \in SumProjectTables
    /\ entry = EmptyDict
    /\ project_cache = PyNone
    /\ excluded = NotExcluded
    /\ service_call = NoCall
    /\ created = 0
    /\ services = EmptyDict
    /\ hass_data = EmptyDict
    /\ config_entries = EmptyDict
    /\ listing \in Listings
    /\ period_total = NoTotal

\* one query of the period: the response lists the entries in some order
\* and the loop of _async_get_daily_time / _async_get_weekly_time sums it
SumListing ==
    /\ \E order \in Orders(listing) :
        /\ listing' = order
        /\ period_total' =
               [called |-> TRUE,
                value |-> TotalOf([raises |-> FALSE, status |-> 200, body |-> order],
                                  projects).total]
    /\ UNCHANGED <<result, outcome, inp, clock, remote, sent, trace, duration,
                   parsed, logged_seconds, expected_seconds, metrics,
                   service, projects, entry, project_cache, excluded,
                   config_entries,
                   hass_data,
                   services,
                   created,
                   service_call>>

NextSum == SumListing

SpecSum == InitSum /\ [][NextSum]_vars

-----------------------------------------------------------------------------
(* Config entries and services.  Home Assistant sets a config entry up     *)
(* (async_setup_entry) when it is not loaded and unloads a loaded one      *)
(* (async_unload_entry); a service call runs the handler the registry      *)
(* holds.  A coordinator is the object __init__ leaves: its number, its    *)
(* entry and the names of its attributes.                                  *)

MaxCoordinators == 4

ConfigEntries == {"entry_a", "entry_b"}

\* the attributes DataUpdateCoordinator.__init__ sets that the code reads
BaseAttributes == {"hass", "logger", "name", "update_interval", "data"}

\* ClockifyDataUpdateCoordinator(hass, api_key, workspace_id)
ClockifyDataUpdateCoordinator(n, entry_id) ==
    [id |-> n, entry_id |-> entry_id,
     attrs |-> {"api_key", "workspace_id", "session"} \cup BaseAttributes]

\* _async_register_services: both handlers are closures over the
\* coordinator passed; registering a name again replaces its handler
_async_register_services(registry, coordinator) ==
    ("start_timer" :> coordinator) @@ ("stop_timer" :> coordinator) @@ registry

\* a dict without key k
Pop(dict, k) == [x \in DOMAIN dict \ {k} |-> dict[x]]

\* async_setup_entry once the first refresh is done: ConfigEntryNotReady
\* when it failed, else the coordinator is stored and the services are
\* registered
SetupEntry(entry_id, coordinator, refresh_ok) ==
    IF ~refresh_ok
    THEN [ok |-> FALSE, hass_data |-> hass_data, services |-> services]
    ELSE [ok |-> TRUE,
          hass_data |-> (entry_id :> coordinator) @@ Pop(hass_data, entry_id),
          services |-> _async_register_services(services, coordinator)]

\* hass.services.async_remove of both services when no entry is left
RemoveIfLast(data) ==
    IF DOMAIN data = {} THEN Pop(Pop(services, "start_timer"), "stop_timer")
    ELSE services

\* async_unload_entry
UnloadEntry(entry_id, unload_ok) ==
    IF unload_ok
    THEN [ok |-> TRUE, hass_data |-> Pop(hass_data, entry_id),
          services |-> RemoveIfLast(Pop(hass_data, entry_id))]
    ELSE [ok |-> FALSE, hass_data |-> hass_data, services |-> services]

\* the request body async_start_timer builds
StartPayload(now, description, project_id, task_id) ==
    [k \in {"start"} \cup (IF description # "" THEN {"description"} ELSE {})
                     \cup (IF project_id # "" THEN {"projectId"} ELSE {})
                     \cup (IF task_id # "" THEN {"taskId"} ELSE {}) |->
        CASE k = "start" -> [isTime |-> TRUE, at |-> now]
          [] k = "description" -> [isTime |-> FALSE, text |-> description]
          [] k = "projectId" -> [isTime |-> FALSE, text |-> project_id]
          [] k = "taskId" -> [isTime |-> FALSE, text |-> task_id]]

\* the body of async_start_timer once its attributes are read: the POST,
\* then True and a refresh on status 201, False on any other status or on
\* an error of the request
PostStart(body, post) ==
    IF post.raises
    THEN [raised |-> FALSE, returned |-> FALSE, posted |-> <<body>>,
          refresh_requested |-> FALSE]
    ELSE [raised |-> FALSE, returned |-> post.status = 201, posted |-> <<body>>,
          refresh_requested |-> post.status = 201]

\* ClockifyDataUpdateCoordinator.async_start_timer: reading an attribute the
\* object does not have is an AttributeError, caught like every exception
async_start_timer(self, now, args, post) ==
    IF ~({"_workspace_id", "_api_key", "_session"} \subseteq self.attrs)
    THEN [raised |-> FALSE, returned |-> FALSE, posted |-> <<>>,
          refresh_requested |-> FALSE]
    ELSE PostStart(StartPayload(now, args.description, args.project_id,
                                args.task_id), post)

\* call.data of a start_timer call; a field left out reads as None, which
\* is no true value, like the empty string here
StartCalls ==
    {[description |-> d, project_id |-> pid, task_id |-> t] :
        d \in {"", "writing"}, pid \in {"", "p1"}, t \in {"", "t1"}}

\* what the remote service does with a POST
PostAnswers ==
    {[raises |-> FALSE, status |-> 201], [raises |-> FALSE, status |-> 400],
     [raises |-> TRUE, status |-> 0]}

InitEntries ==
    /\ result = EmptyDict
    /\ outcome = "none"
    /\ inp = NoInput
    /\ clock = FirstInstant
    /\ remote = [status |-> 404, body |-> EmptyDict]
    /\ sent = NoWindows
    /\ trace = EmptyDict
    /\ duration = NoDuration
    /\ parsed = NotParsed
    /\ logged_seconds = 0
    /\ expected_seconds = 0
    /\ metrics = NoMetrics
    /\ service = QuietService
    /\ projects = EmptyDict
    /\ entry = EmptyDict
    /\ project_cache = PyNone
    /\ excluded = NotExcluded
    /\ listing = <<>>
    /\ period_total = NoTotal
    /\ config_entries = [e \in ConfigEntries |-> "not_loaded"]
    /\ hass_data = EmptyDict
    /\ services = EmptyDict
    /\ created = 0
    /\ service_call = NoCall

\* async_setup_entry of an entry that is not loaded: a coordinator is
\* constructed and refreshed first
Setup ==
    /\ created < MaxCoordinators
    /\ \E e \in ConfigEntries, refresh_ok \in BOOLEAN :
        /\ config_entries[e] = "not_loaded"
        /\ \E done \in {SetupEntry(e, ClockifyDataUpdateCoordinator(created + 1, e),
                                   refresh_ok)} :
            /\ hass_data' = done.hass_data
            /\ services' = done.services
            /\ config_entries' =
                   [config_entries EXCEPT ![e] = IF done.ok THEN "loaded" ELSE @]
    /\ created' = created + 1
    /\ UNCHANGED <<result, outcome, inp, clock, remote, sent, trace, duration,
                   parsed, logged_seconds, expected_seconds, metrics,
                   service, projects, entry, project_cache, excluded,
                   listing, period_total, service_call>>

\* async_unload_entry of a loaded entry
Unload ==
    /\ \E e \in ConfigEntries, unload_ok \in BOOLEAN :
        /\ config_entries[e] = "loaded"
        /\ \E done \in {UnloadEntry(e, unload_ok)} :
            /\ hass_data' = done.hass_data
            /\ services' = done.services
            /\ config_entries' =
                   [config_entries EXCEPT
                        ![e] = IF done.ok THEN "not_loaded" ELSE "failed_unload"]
    /\ UNCHANGED <<result, outcome, inp, clock, remote, sent, trace, duration,
                   parsed, logged_seconds, expected_seconds, metrics,
                   service, projects, entry, project_cache, excluded,
                   listing, period_total, created, service_call>>

\* a call of the start_timer service: the registered handler passes the
\* call's data to the coordinator it was registered with
CallStartTimer ==
    /\ "start_timer" \in DOMAIN services
    /\ \E args \in StartCalls, post \in PostAnswers :
        \E done \in {async_start_timer(services["start_timer"], clock, args, post)} :
            service_call' =
                [called |-> TRUE,
                 coordinator |-> services["start_timer"].id,
                 answer |-> IF post.raises THEN 0 ELSE post.status,
                 raised |-> done.raised,
                 returned |-> done.returned,
                 posted |-> done.posted,
                 refresh_requested |-> done.refresh_requested]
    /\ UNCHANGED <<result, outcome, inp, clock, remote, sent, trace, duration,
                   parsed, logged_seconds, expected_seconds, metrics,
                   service, projects, entry, project_cache, excluded,
                   listing, period_total,
                   config_entries, hass_data, services, created>>

NextEntries == Setup \/ Unload \/ CallStartTimer

SpecEntries == InitEntries /\ [][NextEntries]_vars

-----------------------------------------------------------------------------
(* Properties.  The reference notions below are stated from the payload    *)
(* and the calendar alone, not through the operators above.                *)

\* weekday label of day number d (day 0, 1970-01-01, was a Thursday)
LabelOfDay(d) == <<"Thu", "Fri", "Sat", "Sun", "Mon", "Tue", "Wed">>[(d % 7) + 1]

CanonicalCycle == <<"Mon", "Tue", "Wed", "Thu", "Fri", "Sat", "Sun">>

\* the offset and the first weekday a week-start setting stands for
ExpectedOffset(w) == IF w = "SUNDAY" THEN 6 ELSE IF w = "SATURDAY" THEN 5 ELSE 0
ExpectedFirstDay(w) ==
    IF w = "SUNDAY" THEN "Sun" ELSE IF w = "SATURDAY" THEN "Sat" ELSE "Mon"

\* the running timer, and whether fetching it or its project and task ended
\* the run before the week calendar and the schedule were used
HasTimer == service.timer # <<>>
Live == service.timer[1]
TimerFetchFailed == service.fault.at = "timer"
TimerDetailsFailed ==
    /\ HasTimer
    /\ \/ /\ "projectId" \in DOMAIN Live
          /\ Live["projectId"] \in DOMAIN projects
          /\ projects[Live["projectId"]].raises
       \/ /\ "taskId" \in DOMAIN Live
          /\ ("projectId" \notin DOMAIN Live
                 \/ (service.fault.at = "task" /\ service.fault.how = "raises"))

\* a run that got to the time summaries and the schedule
Ran ==
    /\ outcome # "none" /\ inp.user_status = 200
    /\ ~TimerFetchFailed /\ ~TimerDetailsFailed
Ok == outcome = "ok"

\* C1: for every week-start setting and every date,
\* _calculate_days_since_week_start is in 0..6 and the element of
\* _get_week_day_order at that index is the date's own weekday label
\* (week start SATURDAY on a Wednesday gives 4).
C1_RoundTrip ==
    Ran =>
        /\ trace.days_since_week_start \in 0..6
        /\ trace.week_day_order[trace.days_since_week_start + 1]
               = LabelOfDay(inp.now.day)
        /\ (trace.week_start_day = "SATURDAY" /\ LabelOfDay(inp.now.day) = "Wed")
               => trace.days_since_week_start = 4

C1_Witness ==
    /\ Ran
    /\ trace.week_start_day = "SATURDAY"
    /\ LabelOfDay(inp.now.day) = "Wed"
    /\ trace.days_since_week_start = 4
    /\ trace.week_day_order[5] = "Wed"

\* C2: the week-start offset is 0 for MONDAY, 6 for SUNDAY, 5 for SATURDAY
\* and 0 for any unrecognized value, and the ordered weekday list is the
\* Mon..Sun cycle rotated left by that offset: 7 labels, each weekday exactly
\* once, starting at the configured week-start day.
C2_OffsetAndOrder ==
    Ran =>
        LET off   == ExpectedOffset(trace.week_start_day)
            order == trace.week_day_order
        IN  /\ trace.week_start_offset = off
            /\ Len(order) = 7
            /\ \A i \in 1..7 : order[i] = CanonicalCycle[((i - 1 + off) % 7) + 1]
            /\ \A d \in Range(CanonicalCycle) :
                   Cardinality({i \in 1..7 : order[i] = d}) = 1
            /\ order[1] = ExpectedFirstDay(trace.week_start_day)

C2_Witness ==
    /\ Ran
    /\ trace.week_start_day = "SUNDAY"
    /\ trace.week_start_offset = 6
    /\ trace.week_day_order = <<"Sun", "Mon", "Tue", "Wed", "Thu", "Fri", "Sat">>

\* C3: the week window of the weekly total and of the per-day breakdown
\* starts at midnight of the day days_since_week_start days before now and
\* ends 6 days later at 23:59:59.999999; its start is on the configured
\* week-start weekday, its end date is start date + 6, now lies inside it.
C3_WeekWindow ==
    Ran =>
        LET now == inp.now
            w   == sent.weekly
        IN  /\ w.start = [day |-> now.day - trace.days_since_week_start,
                          sec |-> 0, us |-> 0]
            /\ w.end = [day |-> w.start.day + 6, sec |-> 86399, us |-> 999999]
            /\ LabelOfDay(w.start.day) = ExpectedFirstDay(trace.week_start_day)
            /\ DtLeq(w.start, now) /\ DtLeq(now, w.end)
            /\ \A i \in 1..7 :
                   /\ sent.days[i].start =
                          [day |-> w.start.day + i - 1, sec |-> 0, us |-> 0]
                   /\ sent.days[i].end =
                          [day |-> w.start.day + i - 1, sec |-> 86399, us |-> 999999]
            /\ Ok => result.week_start = w.start.day /\ result.week_end = w.start.day + 6

\* now is the last microsecond of a week that started on an earlier Saturday
C3_Witness ==
    /\ Ok
    /\ trace.week_start_day = "SATURDAY"
    /\ inp.now = sent.weekly.end
    /\ sent.weekly.start.day = inp.now.day - 6
    /\ LabelOfDay(sent.weekly.start.day) = "Sat"

\* The canonical schedule a payload stands for.
Body == inp.profile.body
Absent == inp.profile.status # 200 \/ DOMAIN Body = {}
IsMember == ~Absent /\ {"workCapacity", "workingDays"} \subseteq DOMAIN Body
IsPerWeekday ==
    /\ ~Absent /\ ~IsMember
    /\ "workWeek" \in DOMAIN Body /\ DOMAIN Body["workWeek"] # {}
IsLegacy ==
    /\ ~Absent /\ ~IsMember /\ ~IsPerWeekday
    /\ "daysOfWeek" \in DOMAIN Body /\ Body["daysOfWeek"] # <<>>
Recognized == Absent \/ IsMember \/ IsPerWeekday \/ IsLegacy

ShortOf(name) ==
    CASE name = "MONDAY" -> "Mon" [] name = "TUESDAY" -> "Tue"
      [] name = "WEDNESDAY" -> "Wed" [] name = "THURSDAY" -> "Thu"
      [] name = "FRIDAY" -> "Fri" [] name = "SATURDAY" -> "Sat"
      [] name = "SUNDAY" -> "Sun" [] name = "FUNDAY" -> "FUN"
      [] name = "Sunday" -> "Sun" [] name = "Fr" -> "Fr"
      [] name = "" -> "" [] name = "monday" -> "mon"

KeyOf(label) ==
    CASE label = "Mon" -> "monday" [] label = "Tue" -> "tuesday"
      [] label = "Wed" -> "wednesday" [] label = "Thu" -> "thursday"
      [] label = "Fri" -> "friday" [] label = "Sat" -> "saturday"
      [] label = "Sun" -> "sunday"

MemberList ==
    LET raw == Body["workingDays"]
    IN  IF raw.isStr /\ ~raw.json THEN <<>> ELSE raw.list

\* whether the per-weekday payload marks the weekday as a work day
MarkedWorkDay(label) ==
    LET key == KeyOf(label)
    IN  /\ key \in DOMAIN Body["workWeek"]
        /\ "isWorkDay" \in DOMAIN Body["workWeek"][key]
        /\ Body["workWeek"][key]["isWorkDay"]

CanonWorkingDays ==
    IF Absent THEN {"Mon", "Tue", "Wed", "Thu", "Fri"}
    ELSE IF IsMember THEN {ShortOf(n) : n \in Range(MemberList)}
    ELSE IF IsPerWeekday THEN {l \in Range(CanonicalCycle) : MarkedWorkDay(l)}
    ELSE IF IsLegacy THEN {ShortOf(n) : n \in Range(Body["daysOfWeek"])}
    ELSE {}

IsInt(f) == f # <<>> /\ \A i \in 1..Len(f) : f[i] \in Digit
RECURSIVE IntOf(_)
IntOf(f) == IF f = <<>> THEN 0 ELSE 10 * IntOf(SubSeq(f, 1, Len(f) - 1)) + DigitVal(f[Len(f)])

\* the seconds a duration string stands for: PT, then <int>H and/or <int>M
\* in this order, is 3600 * hours + 60 * minutes; any other string is 0
DurationSeconds(d) ==
    IF ~(Len(d) >= 2 /\ d[1] = "P" /\ d[2] = "T") THEN 0
    ELSE LET r  == SubSeq(d, 3, Len(d))
             hs == {i \in 1..Len(r) : r[i] = "H"}
             ms == {i \in 1..Len(r) : r[i] = "M"}
             ph == IF hs = {} THEN 0 ELSE CHOOSE i \in hs : TRUE
             pm == IF ms = {} THEN ph ELSE CHOOSE i \in ms : TRUE
             hf == IF hs = {} THEN <<>> ELSE SubSeq(r, 1, ph - 1)
             mf == IF ms = {} THEN <<>> ELSE SubSeq(r, ph + 1, pm - 1)
             ok == /\ Cardinality(hs) <= 1 /\ Cardinality(ms) <= 1
                   /\ ph <= pm /\ pm = Len(r)
                   /\ (hs # {} => IsInt(hf))
                   /\ (ms # {} => IsInt(mf))
         IN  IF ok THEN 3600 * IntOf(hf) + 60 * IntOf(mf) ELSE 0

\* the capacity in seconds of a working day
CanonCapacity(label) ==
    IF label \notin CanonWorkingDays THEN 0
    ELSE IF Absent THEN 8 * 3600
    ELSE IF IsMember THEN DurationSeconds(Body["workCapacity"])
    ELSE IF IsPerWeekday
    THEN LET day == Body["workWeek"][KeyOf(label)]
         IN  IF "duration" \in DOMAIN day
             THEN DurationSeconds(day["duration"]) ELSE 0
    ELSE IF "hoursPerDay" \in DOMAIN Body
         THEN (Body["hoursPerDay"].num * 3600) \div Body["hoursPerDay"].den
         ELSE 8 * 3600

RECURSIVE SumCapacity(_)
SumCapacity(days) ==
    IF days = {} THEN 0
    ELSE LET d == CHOOSE x \in days : TRUE
         IN  CanonCapacity(d) + SumCapacity(days \ {d})

\* weekdays at positions lo..hi (0-based) of the ordered week
WeekSlice(lo, hi) == {trace.week_day_order[i + 1] : i \in lo..hi}

\* C4: for every schedule, week-start setting and current day,
\* weekly_to_date_expected_seconds is the sum of the daily capacity of the
\* working days among the first days_since_week_start + 1 days of the ordered
\* weekday list; non-working days there contribute nothing.
C4_ToDateIsPrefixSum ==
    (Ok /\ Recognized) =>
        result.weekly_to_date_expected_seconds
            = SumCapacity(WeekSlice(0, trace.days_since_week_start)
                              \cap CanonWorkingDays)

\* C5: for every schedule, week-start setting and current day,
\* weekly_remaining_expected_seconds is the sum of the daily capacity of the
\* working days strictly after today in the ordered weekday list, and 0 on
\* the last day of the week.
C5_RemainingIsSuffixSum ==
    (Ok /\ Recognized) =>
        /\ result.weekly_remaining_expected_seconds
               = SumCapacity(WeekSlice(trace.days_since_week_start + 1, 6)
                                 \cap CanonWorkingDays)
        /\ trace.days_since_week_start = 6
               => result.weekly_remaining_expected_seconds = 0

\* C6: for every schedule, weekly_expected_seconds is exactly the sum over
\* the working days of that day's capacity in seconds (member-capacity and
\* legacy: number of working days times the per-day capacity; per-weekday:
\* sum of each work day's own duration; no payload: 40 hours).
C6_WeeklyIsSumOfDays ==
    (Ok /\ Recognized) =>
        /\ result.weekly_expected_seconds = SumCapacity(CanonWorkingDays)
        /\ Absent => result.weekly_expected_seconds = 40 * 3600

\* C7: a payload that is present but of none of the three shapes yields the
\* figures of an absent payload: the default Mon-Fri 8h/day schedule
\* (weekly expected 40h, daily expected 8h on Mon-Fri).
C7_UnrecognizedIsDefault ==
    (Ok /\ inp.profile.status = 200 /\ ~IsMember /\ ~IsPerWeekday /\ ~IsLegacy) =>
        /\ result.weekly_expected_seconds = 40 * 3600
        /\ result.daily_expected_seconds
               = IF LabelOfDay(inp.now.day) \in {"Mon", "Tue", "Wed", "Thu", "Fri"}
                 THEN 8 * 3600 ELSE 0

\* C8: for every schedule shape, daily_expected_seconds is the capacity of
\* the current weekday when it is a working day and 0 otherwise; with no
\* payload it is 8h on Monday-Friday and 0 on Saturday and Sunday while
\* weekly expected stays 40h; in the per-weekday form each day uses its own
\* duration.
C8_DailyIsTodaysCapacity ==
    (Ok /\ Recognized) =>
        LET today == LabelOfDay(inp.now.day)
        IN  /\ result.daily_expected_seconds
                   = IF today \in CanonWorkingDays THEN CanonCapacity(today) ELSE 0
            /\ Absent =>
                   /\ result.weekly_expected_seconds = 40 * 3600
                   /\ result.daily_expected_seconds
                          = IF today \in {"Sat", "Sun"} THEN 0 ELSE 8 * 3600

\* C9: with no schedule payload the reported working-days set is Mon, Tue,
\* Wed, Thu, Fri on every current day, Saturday and Sunday included.
C9_DefaultWorkingDays ==
    (Ok /\ Absent) =>
        Range(result.working_days) = {"Mon", "Tue", "Wed", "Thu", "Fri"}

\* C17: for every schedule payload, a weekday listed in working_days has a
\* strictly positive expected capacity and a weekday not listed has none:
\* the capacity the result shows for today is positive exactly when today
\* is in working_days.
C17_WorkingDayHasCapacity ==
    Ok =>
        LET today == LabelOfDay(inp.now.day)
        IN  (today \in Range(result.working_days))
                <=> (result.daily_expected_seconds > 0)

\* C18: the shapes are tried in a fixed order: workCapacity + workingDays is
\* read as the member-capacity form whatever else is present, otherwise a
\* non-empty workWeek as the per-weekday form even beside daysOfWeek /
\* hoursPerDay, and daysOfWeek / hoursPerDay only when neither applies.
C18_ShapePrecedence ==
    (Ok /\ ~Absent) =>
        /\ IsMember =>
               result.working_days
                   = [i \in 1..Len(MemberList) |-> ShortOf(MemberList[i])]
        /\ IsPerWeekday =>
               Range(result.working_days)
                   = {l \in Range(CanonicalCycle) : MarkedWorkDay(l)}
        /\ IsLegacy =>
               result.working_days
                   = [i \in 1..Len(Body["daysOfWeek"]) |-> ShortOf(Body["daysOfWeek"][i])]

\* a payload with a work week (Sunday only) beside Mon-Fri daysOfWeek
C18_Witness ==
    /\ Ok /\ IsPerWeekday
    /\ "daysOfWeek" \in DOMAIN Body /\ "hoursPerDay" \in DOMAIN Body
    /\ result.working_days = <<"Sun">>
    /\ result.weekly_expected_seconds = 8 * 3600

\* the characters of the weekday names and labels of the model
Chars(str) ==
    CASE str = "MONDAY" -> <<"M", "O", "N", "D", "A", "Y">>
      [] str = "TUESDAY" -> <<"T", "U", "E", "S", "D", "A", "Y">>
      [] str = "WEDNESDAY" -> <<"W", "E", "D", "N", "E", "S", "D", "A", "Y">>
      [] str = "THURSDAY" -> <<"T", "H", "U", "R", "S", "D", "A", "Y">>
      [] str = "FRIDAY" -> <<"F", "R", "I", "D", "A", "Y">>
      [] str = "SATURDAY" -> <<"S", "A", "T", "U", "R", "D", "A", "Y">>
      [] str = "SUNDAY" -> <<"S", "U", "N", "D", "A", "Y">>
      [] str = "FUNDAY" -> <<"F", "U", "N", "D", "A", "Y">>
      [] str = "Sunday" -> <<"S", "u", "n", "d", "a", "y">>
      [] str = "monday" -> <<"m", "o", "n", "d", "a", "y">>
      [] str = "Fr" -> <<"F", "r">>
      [] str = "" -> <<>>
      [] str = "Mon" -> <<"M", "o", "n">> [] str = "Tue" -> <<"T", "u", "e">>
      [] str = "Wed" -> <<"W", "e", "d">> [] str = "Thu" -> <<"T", "h", "u">>
      [] str = "Fri" -> <<"F", "r", "i">> [] str = "Sat" -> <<"S", "a", "t">>
      [] str = "Sun" -> <<"S", "u", "n">>
      [] str = "FUN" -> <<"F", "U", "N">> [] str = "mon" -> <<"m", "o", "n">>
      [] str = "KeyError" -> <<"K", "e", "y", "E", "r", "r", "o", "r">>

RecognizedNames ==
    {"MONDAY", "TUESDAY", "WEDNESDAY", "THURSDAY", "FRIDAY", "SATURDAY", "SUNDAY"}

\* the weekday names of a member-capacity or legacy payload
NamesGiven == IF IsMember THEN MemberList ELSE Body["daysOfWeek"]

\* the per-day duration of a member-capacity payload is the unparsable NaN
CapacityIsNaN == IsMember /\ Body["workCapacity"] = <<"P", "T", "n", "a", "n", "H">>

\* C19: a weekday name in workingDays or daysOfWeek that is not one of the
\* seven recognized upper-case names gets its first three characters as
\* label and never raises: the computation completes for any list of names
\* (it fails only on a NaN capacity, whatever the names).
C19_UnknownNames ==
    (Ran /\ inp.user_status = 200 /\ (IsMember \/ IsLegacy)) =>
        /\ Ok <=> ~CapacityIsNaN
        /\ Ok =>
            /\ Len(result.working_days) = Len(NamesGiven)
            /\ \A i \in 1..Len(NamesGiven) :
                   NamesGiven[i] \notin RecognizedNames =>
                       Chars(result.working_days[i])
                           = SubSeq(Chars(NamesGiven[i]), 1,
                                    IF Len(Chars(NamesGiven[i])) < 3
                                    THEN Len(Chars(NamesGiven[i])) ELSE 3)

\* a list with a mixed-case, a short, an empty and a lower-case name
C19_Witness ==
    /\ Ok /\ IsLegacy
    /\ NamesGiven = <<"Sunday", "Fr", "", "monday">>
    /\ result.working_days = <<"Sun", "Fr", "", "mon">>

-----------------------------------------------------------------------------
(* Exclusion policy                                                        *)

BreaksSpellings ==
    {"breaks", "Breaks", "BREAKS", "bReAkS", "BReaks", "breakS"}

TypeIsBreak == "type" \in DOMAIN entry /\ entry["type"] = "BREAK"
HasProjectId == "projectId" \in DOMAIN entry /\ entry["projectId"] # ""

\* the project the id resolves to: the cached one when the cache given has
\* the id, else the one the service answers with status 200, else none
InCache ==
    /\ ~excluded.given.none
    /\ entry["projectId"] \in DOMAIN excluded.given.v
Answer ==
    IF entry["projectId"] \in DOMAIN projects
    THEN projects[entry["projectId"]]
    ELSE [raises |-> FALSE, status |-> 404, body |-> EmptyDict]
ResolvedNames ==
    IF InCache
    THEN (IF excluded.given.v[entry["projectId"]].none THEN {}
          ELSE IF "name" \in DOMAIN excluded.given.v[entry["projectId"]].v
          THEN {excluded.given.v[entry["projectId"]].v["name"]} ELSE {})
    ELSE IF ~Answer.raises /\ Answer.status = 200 /\ "name" \in DOMAIN Answer.body
    THEN {Answer.body["name"]}
    ELSE {}

\* C20: _should_exclude_time_entry returns true exactly when the entry's
\* type is BREAK, and then no project is looked up, or the entry has a
\* project id whose resolved project name is "breaks" in any letter case;
\* an entry with no project id and a non-BREAK type is never excluded.
C20_ExcludedExactly ==
    excluded.called =>
        /\ excluded.value <=>
               \/ TypeIsBreak
               \/ HasProjectId /\ ResolvedNames \cap BreaksSpellings # {}
        /\ TypeIsBreak => excluded.fetched = <<>> /\ project_cache = excluded.given
        /\ (~HasProjectId /\ ~TypeIsBreak) => ~excluded.value

\* a REGULAR entry excluded through a lookup that found the project "BREAKS"
C20_Witness ==
    /\ excluded.called /\ excluded.value
    /\ "type" \in DOMAIN entry /\ entry["type"] = "REGULAR"
    /\ HasProjectId
    /\ excluded.fetched = <<entry["projectId"]>>
    /\ ResolvedNames = {"BREAKS"}

-----------------------------------------------------------------------------
(* Time summaries, stated on the entries the remote service holds          *)

Today == inp.now.day
EntryAt(i) == service.entries[i]
Interval(e) == IF "timeInterval" \in DOMAIN e THEN e["timeInterval"] ELSE EmptyDict
IsClosed(e) == {"start", "end"} \subseteq DOMAIN Interval(e)

\* whole seconds elapsed from instant a to a later instant b
WholeSeconds(a, b) ==
    (b.day - a.day) * 86400 + (b.sec - a.sec) - (IF b.us < a.us THEN 1 ELSE 0)

\* the names the entry's project is known under at the remote service
ProjectNames(e) ==
    IF /\ "projectId" \in DOMAIN e
       /\ e["projectId"] \in DOMAIN projects
       /\ ~projects[e["projectId"]].raises
       /\ projects[e["projectId"]].status = 200
       /\ "name" \in DOMAIN projects[e["projectId"]].body
    THEN {projects[e["projectId"]].body["name"]}
    ELSE {}

IsBreak(e) ==
    \/ "type" \in DOMAIN e /\ e["type"] = "BREAK"
    \/ ProjectNames(e) \cap BreaksSpellings # {}

\* the closed, non-break entries that start on one of the days
CountedOn(days) ==
    {i \in 1..Len(service.entries) :
        /\ IsClosed(EntryAt(i))
        /\ ~IsBreak(EntryAt(i))
        /\ Interval(EntryAt(i))["start"].day \in days}

RECURSIVE SumSeconds(_)
SumSeconds(is) ==
    IF is = {} THEN 0
    ELSE LET i == CHOOSE j \in is : TRUE
         IN  WholeSeconds(Interval(EntryAt(i))["start"], Interval(EntryAt(i))["end"])
                 + SumSeconds(is \ {i})

LoggedOn(days) == SumSeconds(CountedOn(days))

\* what each query of a run can report, given the request that failed
DailyLogged == IF service.fault.at = "daily" THEN 0 ELSE LoggedOn({Today})
WeekDays == result.week_start..result.week_end
WeeklyLogged == IF service.fault.at = "weekly" THEN 0 ELSE LoggedOn(WeekDays)
DayLogged(n) ==
    IF /\ service.fault.at = "day"
       /\ (service.fault.how = "raises" \/ result.week_start + service.fault.i = n)
    THEN 0
    ELSE LoggedOn({n})

\* the entries that start today, as <<type, start, end>> in seconds of day
TodaysEntries ==
    {<<EntryAt(i)["type"], Interval(EntryAt(i))["start"].sec,
       Interval(EntryAt(i))["end"].sec>> :
        i \in {j \in 1..Len(service.entries) :
                  /\ IsClosed(EntryAt(j))
                  /\ Interval(EntryAt(j))["start"].day = Today
                  /\ Interval(EntryAt(j))["end"].day = Today}}

WorkedMonday ==
    /\ Absent
    /\ LabelOfDay(Today) = "Mon"
    /\ service.fault.at # "daily"
    /\ TodaysEntries = {<<"REGULAR", 9 * 3600, 12 * 3600>>,
                        <<"REGULAR", 13 * 3600, 17 * 3600>>,
                        <<"BREAK", 17 * 3600, 17 * 3600 + 30 * 60>>}

\* C13: on a Monday with the default schedule, closed entries 09:00-12:00
\* REGULAR, 13:00-17:00 REGULAR and 17:00-17:30 BREAK give a daily logged
\* total of 7 h (the break is left out), 8 h expected, a daily progress of
\* 87.5 % and "01:00" remaining.
C13_BreakLeftOut ==
    (Ok /\ WorkedMonday) =>
        /\ result.daily_duration = 7 * 3600
        /\ result.daily_expected_seconds = 8 * 3600
        /\ result.daily_progress_percent = [num |-> 875, den |-> 10]
        /\ result.daily_remaining_formatted = <<"0", "1", ":", "0", "0">>

C13_Witness ==
    /\ Ok /\ WorkedMonday
    /\ inp.now.sec = 45296
    /\ result.daily_duration = 25200
    /\ result.daily_remaining_seconds = 3600

LiveStarted == HasTimer /\ "start" \in DOMAIN Interval(Live)
LiveSeconds == WholeSeconds(Interval(Live)["start"], inp.now)

\* C14: a running entry adds nothing to daily_duration, weekly_duration and
\* daily_breakdown, which are the sums of the closed, non-break entries of
\* their windows; a running timer that is not excluded adds the whole
\* seconds elapsed since its start to daily_total and weekly_total; an
\* excluded one adds nothing.
C14_LiveEntry ==
    Ok =>
        /\ result.daily_duration = DailyLogged
        /\ result.weekly_duration = WeeklyLogged
        /\ \A n \in WeekDays :
               /\ 36 * result.daily_breakdown[LabelOfDay(n)].num - DayLogged(n) \in -18..18
        /\ (LiveStarted /\ ~IsBreak(Live)) =>
               /\ result.daily_total - result.daily_duration = LiveSeconds
               /\ result.weekly_total - result.weekly_duration = LiveSeconds
        /\ (HasTimer /\ IsBreak(Live)) =>
               /\ result.daily_total = result.daily_duration
               /\ result.weekly_total = result.weekly_duration

\* the first refresh, 45 minutes after the timer started, with the running
\* entry among the week's entries
C14_Witness ==
    /\ Ok
    /\ LiveStarted /\ ~IsBreak(Live)
    /\ \E i \in 1..Len(service.entries) :
           /\ ~IsClosed(EntryAt(i))
           /\ Interval(EntryAt(i))["start"].day \in WeekDays
    /\ result.weekly_duration = 3900
    /\ result.weekly_total - result.weekly_duration = 2700
    /\ result.daily_total - result.daily_duration = 2700

Weekdays == {"Mon", "Tue", "Wed", "Thu", "Fri", "Sat", "Sun"}

\* days of the week on which no entry of the user starts
IdleDays ==
    {n \in WeekDays :
        \A i \in 1..Len(service.entries) :
            "start" \in DOMAIN Interval(EntryAt(i))
                => Interval(EntryAt(i))["start"].day # n}

\* C15: whatever the per-day queries return, the four per-weekday
\* breakdowns of a completed run have exactly the seven weekdays as keys,
\* and a day without logged time shows zero hours and "00:00" (on the
\* current day the breakdowns with the live timer show the timer).
C15_SevenDays ==
    Ok =>
        /\ DOMAIN result.daily_breakdown = Weekdays
        /\ DOMAIN result.daily_breakdown_total = Weekdays
        /\ DOMAIN result.daily_breakdown_formatted = Weekdays
        /\ DOMAIN result.daily_breakdown_total_formatted = Weekdays
        /\ Range(trace.week_day_order) = Weekdays
        /\ \A n \in IdleDays :
               /\ result.daily_breakdown[LabelOfDay(n)].num = 0
               /\ result.daily_breakdown_formatted[LabelOfDay(n)]
                      = <<"0", "0", ":", "0", "0">>
               /\ (n # Today \/ ~HasTimer) =>
                      /\ result.daily_breakdown_total[LabelOfDay(n)].num = 0
                      /\ result.daily_breakdown_total_formatted[LabelOfDay(n)]
                             = <<"0", "0", ":", "0", "0">>

\* a per-day query raised in a week with logged time
C15_Witness ==
    /\ Ok
    /\ service.fault = [at |-> "day", i |-> 4, how |-> "raises"]
    /\ result.weekly_duration > 0
    /\ DOMAIN result.daily_breakdown_total_formatted = Weekdays
    /\ \A d \in Weekdays : result.daily_breakdown[d].num = 0

\* some fetch other than the user's identity failed during the run
TimerLookupFailed ==
    /\ HasTimer
    /\ "projectId" \in DOMAIN Live
    /\ \/ Live["projectId"] \notin DOMAIN projects
       \/ projects[Live["projectId"]].raises
       \/ projects[Live["projectId"]].status # 200
FetchFailed ==
    \/ inp.profile.status # 200
    \/ service.fault.at # "none"
    \/ TimerLookupFailed

\* C16: when fetching the member profile, the current timer, the daily,
\* weekly or per-day entries, a project or a task fails, the run still
\* returns a complete result; the run fails (UpdateFailed) only when the
\* user's identity cannot be fetched.
C16_OnlyIdentityIsFatal ==
    outcome # "none" =>
        /\ inp.user_status # 200 => outcome = "UpdateFailed"
        /\ (inp.user_status = 200 /\ FetchFailed) =>
               /\ Ok
               /\ DOMAIN result.daily_breakdown = Weekdays

-----------------------------------------------------------------------------
(* Progress metrics                                                        *)

Metrics == metrics.value

\* C11: for any logged seconds, when expected seconds is 0 or negative the
\* result is progress_percent 0.0, remaining_seconds 0, remaining_hours 0.0
\* and remaining_formatted "00:00", and the call returns.
C11_NoExpectedNoProgress ==
    (metrics.called /\ expected_seconds <= 0) =>
        /\ Metrics.progress_percent.num = 0
        /\ Metrics.remaining_seconds = 0
        /\ Metrics.remaining_hours.num = 0
        /\ Metrics.remaining_formatted = <<"0", "0", ":", "0", "0">>

C11_Witness ==
    /\ metrics.called
    /\ expected_seconds < 0
    /\ logged_seconds = 3600
    /\ Metrics.remaining_formatted = <<"0", "0", ":", "0", "0">>

\* the HH:MM text read back: the position of the colon and the two fields
Colon == CHOOSE i \in 1..Len(Metrics.remaining_formatted) :
             Metrics.remaining_formatted[i] = ":"
HoursText == SubSeq(Metrics.remaining_formatted, 1, Colon - 1)
MinutesText ==
    SubSeq(Metrics.remaining_formatted, Colon + 1,
           Len(Metrics.remaining_formatted))

\* remaining_formatted shows hours h and minutes mi, two digits each (more
\* for a hundred hours or more)
ShowsHHMM(h, mi) ==
    /\ Cardinality({i \in 1..Len(Metrics.remaining_formatted) :
                        Metrics.remaining_formatted[i] = ":"}) = 1
    /\ IsInt(HoursText) /\ IntOf(HoursText) = h
    /\ Len(HoursText) = (IF h < 100 THEN 2 ELSE IF h < 1000 THEN 3 ELSE 4)
    /\ IsInt(MinutesText) /\ IntOf(MinutesText) = mi
    /\ Len(MinutesText) = 2
    /\ mi \in 0..59

RemainingExact ==
    IF expected_seconds > logged_seconds
    THEN expected_seconds - logged_seconds ELSE 0

\* the part of C12 that does not concern the overtime percentage
RemainingAndFormat ==
    /\ Metrics.remaining_seconds = RemainingExact
    /\ Metrics.remaining_seconds >= 0
    /\ ShowsHHMM(Metrics.remaining_seconds \div 3600,
                 (Metrics.remaining_seconds % 3600) \div 60)
    /\ (logged_seconds = 8 * 3600 /\ expected_seconds = 8 * 3600) =>
           /\ Metrics.progress_percent.num = 100 * Metrics.progress_percent.den
           /\ Metrics.remaining_seconds = 0

Applies12 == metrics.called /\ expected_seconds > 0 /\ logged_seconds >= 0

\* C12 as stated: for expected seconds > 0 and logged seconds >= 0,
\* remaining_seconds is max(0, expected - logged), never negative, overtime
\* gives 0 while the percentage exceeds 100, remaining_formatted is HH:MM of
\* remaining_seconds with minutes in 0..59, and 8h of 8h is 100% with 0 left.
C12_AsStated ==
    Applies12 =>
        /\ RemainingAndFormat
        /\ logged_seconds > expected_seconds =>
               /\ Metrics.remaining_seconds = 0
               /\ Metrics.progress_percent.num > 100 * Metrics.progress_percent.den

\* C12 amended: the same, but in overtime the percentage, being rounded to
\* one decimal, is at least 100 (it is 100.0 for an overtime below 0.05 % of
\* the expected seconds, and above 100 beyond that).
C12_Remaining ==
    Applies12 =>
        /\ RemainingAndFormat
        /\ logged_seconds > expected_seconds =>
               /\ Metrics.remaining_seconds = 0
               /\ Metrics.progress_percent.num >= 100 * Metrics.progress_percent.den
               /\ (2000 * logged_seconds > 2001 * expected_seconds =>
                      Metrics.progress_percent.num > 100 * Metrics.progress_percent.den)

C12_Witness ==
    /\ metrics.called
    /\ logged_seconds = 28801
    /\ expected_seconds = 28800
    /\ Metrics.remaining_seconds = 0
    /\ Metrics.progress_percent = [num |-> 1000, den |-> 10]
    /\ Metrics.remaining_formatted = <<"0", "0", ":", "0", "0">>

\* The duration grammar: PT, then <field>H and/or <field>M, each at most once
\* and in this order, with nothing after them.
Rest == SubSeq(duration, 3, Len(duration))
HasPT == Len(duration) >= 2 /\ duration[1] = "P" /\ duration[2] = "T"
Occurrences(c) == Cardinality({i \in 1..Len(Rest) : Rest[i] = c})
PosH == CHOOSE i \in 1..Len(Rest) : Rest[i] = "H"
PosM == CHOOSE i \in 1..Len(Rest) : Rest[i] = "M"
HasFields ==
    /\ HasPT
    /\ Occurrences("H") <= 1 /\ Occurrences("M") <= 1
    /\ Occurrences("H") + Occurrences("M") >= 1
    /\ Rest[Len(Rest)] = (IF Occurrences("M") = 1 THEN "M" ELSE "H")
HourField == SubSeq(Rest, 1, PosH - 1)
MinuteField ==
    SubSeq(Rest, IF Occurrences("H") = 1 THEN PosH + 1 ELSE 1, PosM - 1)
HourOk == Occurrences("H") = 0 \/ IsInt(HourField)
MinuteOk == Occurrences("M") = 0 \/ IsInt(MinuteField)
Zero == [nan |-> FALSE, m |-> <<>>, e |-> 0]

\* C10: 'PT' followed by an optional <int>H and an optional <int>M parses to
\* hours + minutes/60 (PT6H30M is 6.5, PT0H is 0); a string without the PT
\* prefix or with a non-numeric hour or minute field parses to 0.
C10_ParseDuration ==
    parsed.called =>
        /\ ~HasPT => parsed.value = Zero
        /\ (HasPT /\ Rest = <<>>) => parsed.value = Zero
        /\ (HasFields /\ HourOk /\ MinuteOk) =>
               parsed.value =
                   FAdd(FFromInt(IF Occurrences("H") = 1 THEN IntOf(HourField) ELSE 0),
                        FDiv(FFromInt(IF Occurrences("M") = 1 THEN IntOf(MinuteField) ELSE 0),
                             FFromInt(60)))
        /\ (HasFields /\ ~(HourOk /\ MinuteOk)) => parsed.value = Zero
        /\ duration = <<"P", "T", "6", "H", "3", "0", "M">>
               => parsed.value = [nan |-> FALSE, m |-> <<13>>, e |-> -1]

-----------------------------------------------------------------------------
(* Lookup failures, order of the entries, the live entry's day             *)

\* the remote service's answer to a lookup of the entry's project
LookupOf(e) ==
    IF e["projectId"] \in DOMAIN projects THEN projects[e["projectId"]]
    ELSE [raises |-> FALSE, status |-> 404, body |-> EmptyDict]

\* the entry names a project whose lookup raises, is answered with a status
\* other than 200, or is unknown to the service
LookupFails(e) ==
    /\ "projectId" \in DOMAIN e /\ e["projectId"] # ""
    /\ LookupOf(e).raises \/ LookupOf(e).status # 200

\* the closed entries starting on the days that are counted: not of type
\* BREAK, and with a failed lookup or a project not named "breaks"
CountedDespiteFailure(days) ==
    {i \in 1..Len(service.entries) :
        /\ IsClosed(EntryAt(i))
        /\ Interval(EntryAt(i))["start"].day \in days
        /\ ~("type" \in DOMAIN EntryAt(i) /\ EntryAt(i)["type"] = "BREAK")
        /\ \/ LookupFails(EntryAt(i))
           \/ ProjectNames(EntryAt(i)) \cap BreaksSpellings = {}}

FailedLookupsOn(days) ==
    {i \in 1..Len(service.entries) :
        /\ IsClosed(EntryAt(i))
        /\ Interval(EntryAt(i))["start"].day \in days
        /\ LookupFails(EntryAt(i))}

\* C21: an entry whose project lookup fails (it raises, is answered with a
\* status other than 200, or the project is unknown) is not excluded: its
\* seconds are in the total of its period, and so are the seconds of the
\* entries listed after it; the daily, weekly and per-day sums are the sums
\* over all such entries and the other non-break entries.
C21_LookupFailureCounts ==
    Ok =>
        /\ service.fault.at # "daily" =>
               result.daily_duration = SumSeconds(CountedDespiteFailure({Today}))
        /\ service.fault.at # "weekly" =>
               result.weekly_duration = SumSeconds(CountedDespiteFailure(WeekDays))
        /\ service.fault.at # "day" =>
               \A n \in WeekDays :
                   36 * result.daily_breakdown[LabelOfDay(n)].num
                       - SumSeconds(CountedDespiteFailure({n})) \in -18..18

\* Thursday 1970-01-01: the lookup of p1 raises, the entry of 1 h 30 min in
\* p1 is counted and so is the entry of one second listed after it
C21_Witness ==
    /\ Ok
    /\ Today = 0
    /\ "p1" \in DOMAIN projects /\ projects["p1"].raises
    /\ FailedLookupsOn({Today}) = {1}
    /\ CountedDespiteFailure({Today}) = {1, 2}
    /\ result.daily_duration = 5401
    /\ result.daily_breakdown["Thu"] = [num |-> 150, den |-> 100]

\* C22: for the entries of a period and fixed answers to the project
\* lookups, the summed closed duration does not depend on the order in
\* which the response lists the entries: summing any other order gives the
\* total the previous order gave.
C22_OrderIndependent ==
    [][period_total.called => period_total'.value = period_total.value]_vars

\* the first days' entries listed last to first, with p1 a work project:
\* 1 h 30 min + 1 s + 1 h + 20 min
C22_Witness ==
    /\ period_total.called
    /\ listing = [k \in 1..5 |-> FirstDaysEntries[6 - k]]
    /\ projects["p1"].status = 200 /\ projects["p1"].body["name"] = "Work"
    /\ period_total.value = 10201

LiveDay == Interval(Live)["start"].day

\* C23: the live entry's elapsed seconds are added to a period's figure
\* with the live entry only if the day of its start falls in that period: a
\* live entry started on an earlier day than now adds nothing to today's
\* daily_total nor to today's entry of daily_breakdown_total, and one
\* started before the week adds nothing to weekly_total.
C23_LiveOnlyInItsPeriod ==
    (Ok /\ LiveStarted) =>
        /\ LiveDay # Today =>
               /\ result.daily_total = result.daily_duration
               /\ result.daily_breakdown_total[LabelOfDay(Today)]
                      = result.daily_breakdown[LabelOfDay(Today)]
        /\ LiveDay \notin WeekDays =>
               result.weekly_total = result.weekly_duration

-----------------------------------------------------------------------------
(* Failures inside the breakdown                                           *)

\* the day of the week whose per-day query fails
FailedDay == result.week_start + service.fault.i

\* C24: when the query of one weekday of the breakdown fails (a status
\* other than 200 or a transport error), that weekday's figure is zero and
\* every other weekday's figure is still the sum of its own entries.
C24_OneDayFailureIsLocal ==
    (Ok /\ service.fault.at = "day") =>
        \A n \in WeekDays :
            IF n = FailedDay
            THEN result.daily_breakdown[LabelOfDay(n)].num = 0
            ELSE 36 * result.daily_breakdown[LabelOfDay(n)].num - LoggedOn({n})
                     \in -18..18

\* the timestamp's text can be read as an instant
Reads(t) == "text" \notin DOMAIN t

\* the closed, non-break entries starting on the days whose start and end
\* can both be read
ReadableOn(days) ==
    {i \in CountedOn(days) :
        Reads(Interval(EntryAt(i))["start"]) /\ Reads(Interval(EntryAt(i))["end"])}

UnreadableOn(days) ==
    {i \in 1..Len(service.entries) :
        /\ IsClosed(EntryAt(i))
        /\ Interval(EntryAt(i))["start"].day \in days
        /\ ~(Reads(Interval(EntryAt(i))["start"]) /\ Reads(Interval(EntryAt(i))["end"]))}

\* C25: an entry whose start or end cannot be parsed as a timestamp is the
\* only one that contributes zero: the daily total, the weekly total and
\* every day of the breakdown are still the sums of the other entries of
\* their periods.
C25_OnlyThatEntryIsZero ==
    Ok =>
        /\ result.daily_duration = SumSeconds(ReadableOn({Today}))
        /\ result.weekly_duration = SumSeconds(ReadableOn(WeekDays))
        /\ \A n \in WeekDays :
               36 * result.daily_breakdown[LabelOfDay(n)].num
                   - SumSeconds(ReadableOn({n})) \in -18..18

-----------------------------------------------------------------------------
(* The project cache of a run                                              *)

\* how many times the run looked project p up for an exclusion check
TimesLookedUp(p) ==
    Cardinality({i \in 1..Len(trace.exclusion_lookups) :
                    trace.exclusion_lookups[i] = p})

\* C26: within one run of _async_update_data one project cache is shared by
\* every exclusion check (daily entries, weekly entries, the breakdown's
\* entries and the live entry), so the run looks a project id up at most
\* once for exclusion purposes.
C26_OneLookupPerProject ==
    Ok => \A p \in Range(trace.exclusion_lookups) : TimesLookedUp(p) <= 1

-----------------------------------------------------------------------------
(* Relations between the figures of one result                             *)

\* C27: for every schedule payload, week start and current day, the
\* expected seconds of the week to date plus the expected seconds of the
\* rest of the week are the expected seconds of the week.
C27_ElapsedPlusRemaining ==
    Ok => result.weekly_to_date_expected_seconds
              + result.weekly_remaining_expected_seconds
          = result.weekly_expected_seconds

\* hours, a decimal with two places, is the seconds converted to hours and
\* rounded to two places
IsHoursOf(hours, seconds) ==
    hours.den = 100 /\ 36 * hours.num - seconds \in -18..18

\* C28: in every result, whichever fetches succeeded or failed, today's
\* figures agree between the two derivations: daily_breakdown[today] is
\* daily_duration in hours and daily_breakdown_total[today] is daily_total
\* in hours, both rounded to two decimals.
C28_TodayAgrees ==
    Ok =>
        /\ IsHoursOf(result.daily_breakdown[LabelOfDay(Today)],
                     result.daily_duration)
        /\ IsHoursOf(result.daily_breakdown_total[LabelOfDay(Today)],
                     result.daily_total)

-----------------------------------------------------------------------------
(* Services                                                                *)

\* an entry counts as loaded from its setup until an unload of it succeeds:
\* an entry whose unload failed still holds its coordinator
Loaded(e) == config_entries[e] \in {"loaded", "failed_unload"}

\* the coordinators of the entries that are loaded
LoadedCoordinators == {hass_data[e] : e \in {x \in DOMAIN hass_data : Loaded(x)}}

Registered == {"start_timer", "stop_timer"} \subseteq DOMAIN services

\* C29: after any sequence of setups and unloads, whenever the start_timer
\* and stop_timer services are registered their handler is bound to the
\* coordinator of a config entry that is loaded, and the services are
\* registered exactly while some entry is loaded.
C29_HandlerOfLoadedEntry ==
    /\ Registered =>
           /\ services["start_timer"] \in LoadedCoordinators
           /\ services["stop_timer"] \in LoadedCoordinators
    /\ Registered <=> \E e \in ConfigEntries : Loaded(e)
    /\ DOMAIN services \in {{}, {"start_timer", "stop_timer"}}

\* C30: a start_timer call on a set-up coordinator sends one start request
\* to the remote service; on status 201 async_start_timer returns True and
\* requests a refresh; on any other status or any error it returns False;
\* it never raises.
C30_StartTimer ==
    service_call.called =>
        /\ Len(service_call.posted) = 1
        /\ ~service_call.raised
        /\ service_call.returned <=> service_call.answer = 201
        /\ service_call.refresh_requested <=> service_call.answer = 201

====
